---------------------------- MODULE Spec2Model ----------------------------
(***************************************************************************)
(* A model of opencode-wrapped: the corpus reader (src/src/collector.ts),  *)
(* the stats calculator (src/src/stats.ts), the price table cache and the  *)
(* heatmap weeks (src/src/utils/dates.ts), the command line (main of       *)
(* src/src/index.ts and of src/unnamed/part_001), the clipboard module     *)
(* (src/src/agents/suggestions.ts, src/src/clipboard/linux.ts) and the     *)
(* postinstall script (src/unnamed/part_000).                              *)
(*                                                                         *)
(* Specifications.  Spec: one call into the collectors or calculateStats.  *)
(* SpecMain: one run of main.  SpecTwice: two runs of calculateStats over  *)
(* the same records.  SpecFetch: the fetchModelsData calls of a process.   *)
(* SpecWeeks: one call of generateWeeksForYear.  SpecClipboard: one call   *)
(* of copyImageToClipboard.  SpecLinux: one copyImage call of the Linux    *)
(* provider.  SpecInstall: one run of the postinstall script.              *)
(*                                                                         *)
(* Time.  The program's timestamps are epoch milliseconds.  The model      *)
(* counts epoch HOURS, so that a date of the 2020s fits an integer; a day  *)
(* is HoursPerDay hours where the code writes 1000 * 60 * 60 * 24 ms.  The *)
(* local time zone is taken to be UTC without daylight saving.             *)
(*                                                                         *)
(* Optional fields.  A field the JSON may leave out holds Absent when it   *)
(* is left out ("" for an id).  Money is counted in hundredths of a        *)
(* currency unit (0.42 is 42).                                             *)
(***************************************************************************)
EXTENDS Integers, Sequences, FiniteSets, TLC

VARIABLES
  fs,          \* the corpus on disk
  now,         \* the clock
  year,        \* the requested year
  cachedData,  \* the price table cache of utils/dates.ts
  result,      \* the call made into the program and what it gave
  cli,         \* the command line run: where main is and how it ended
  previous,    \* an earlier calculateStats run: its corpus, clock and result
  calls,       \* the fetchModelsData calls of the process, in starting order
  fetches,     \* the network fetches issued so far
  weeksRun,    \* a generateWeeksForYear call: its loop variables and its result
  clip,        \* a copyImageToClipboard call and the temporary directory
  linux,       \* a copyImage call of the Linux clipboard provider
  install      \* a run of the postinstall script

vars == <<fs, now, year, cachedData, result, cli, previous, calls, fetches,
          weeksRun, clip, linux, install>>

\* The variables of the calls that are outside the run of main.
others == <<weeksRun, clip, linux, install>>

-----------------------------------------------------------------------------
(* Values *)

HoursPerDay == 24

Absent == -1

NaN == -2

FirstParty == "opencode"

-----------------------------------------------------------------------------
(* Calendar: what Date does with a timestamp and with a "YYYY-MM-DD" string *)

\* The civil date <<y, m, d>> of day ordinal z (days since 1970-01-01):
\* getFullYear(), getMonth() + 1 and getDate() of a Date.
CivilFromDays(z) ==
  LET z1  == z + 719468
      era == z1 \div 146097
      doe == z1 - era * 146097
      yoe == (doe - doe \div 1460 + doe \div 36524 - doe \div 146096) \div 365
      doy == doe - (365 * yoe + yoe \div 4 - yoe \div 100)
      mp  == (5 * doy + 2) \div 153
      d   == doy - (153 * mp + 2) \div 5 + 1
      m   == IF mp < 10 THEN mp + 3 ELSE mp - 9
      y   == yoe + era * 400 + (IF m <= 2 THEN 1 ELSE 0)
  IN  <<y, m, d>>

\* The day ordinal of the civil date k: new Date("YYYY-MM-DD") is midnight UTC
\* of that day.
DaysFromCivil(k) ==
  LET y1  == k[1] - (IF k[2] <= 2 THEN 1 ELSE 0)
      era == y1 \div 400
      yoe == y1 - era * 400
      mp  == IF k[2] > 2 THEN k[2] - 3 ELSE k[2] + 9
      doy == (153 * mp + 2) \div 5 + k[3] - 1
      doe == yoe * 365 + yoe \div 4 - yoe \div 100 + doy
  IN  era * 146097 + doe - 719468

\* The day ordinal a timestamp falls on.
DayOf(ts) == ts \div HoursPerDay

\* new Date(ts).getFullYear()
GetFullYear(ts) == CivilFromDays(DayOf(ts))[1]

\* A variant that prints getMonth() as it is, January being 0.
FormatDateKeyZeroMonth(ts) ==
  LET k == CivilFromDays(DayOf(ts)) IN <<k[1], k[2] - 1, k[3]>>

\* formatDateKey(new Date(ts)): the day-key, here the triple <<y, m, d>> whose
\* zero-padded print is "YYYY-MM-DD".
FormatDateKey(ts) == CivilFromDays(DayOf(ts))

\* new Date(key).getTime(), in hours.
ParseDateKey(k) == DaysFromCivil(k) * HoursPerDay

\* The order of two day-keys as strings (Array.prototype.sort without a
\* comparator): the keys of the model have four-digit years and padded months
\* and days, so the order of the strings is the order of the triples.
KeyLess(a, b) ==
  \/ a[1] < b[1]
  \/ a[1] = b[1] /\ a[2] < b[2]
  \/ a[1] = b[1] /\ a[2] = b[2] /\ a[3] < b[3]

Pow10(n) == IF n = 0 THEN 1 ELSE IF n = 1 THEN 10 ELSE IF n = 2 THEN 100
            ELSE IF n = 3 THEN 1000 ELSE 10000

\* key.startsWith(String(y)): the decimal digits of y are a prefix of the key,
\* whose first "-" follows the digits of its year.
StartsWithYear(k, y) ==
  IF y = NaN THEN k[1] = NaN
  ELSE IF y = 0 THEN k[1] = 0
  ELSE \E n \in 0..4 : k[1] \div Pow10(n) = y

-----------------------------------------------------------------------------
(* The corpus on disk *)

\* A file of a corpus directory: ext is what its name ends with, shape what
\* reading it as JSON gives ("unparsable": Bun.file(..).json() throws;
\* "notime": a JSON object with no time field; "nocreated": a time object with
\* no created field; "ok": a record of the declared type), data its fields.
Content(f) == [shape |-> f.shape, data |-> f.data]

\* readdir(OPENCODE_DATA_PATH/<kind>) succeeds: the root and the directory of
\* the record kind are both there.
CanReaddir(kind) == fs.root /\ fs[kind].exists

\* What the loop over the files of one directory pushes; y = 0 is a call
\* without a year (if (year) is false for undefined, 0 and NaN).
Pushed(f, y) ==
  /\ f.ext = "json"
  /\ f.shape # "unparsable"
  /\ (y # 0 /\ y # NaN) => f.shape = "ok" /\ GetFullYear(f.data.created) = y

RECURSIVE CollectFiles(_, _)
CollectFiles(files, y) ==
  IF files = <<>> THEN <<>>
  ELSE (IF Pushed(Head(files), y) THEN <<Content(Head(files))>> ELSE <<>>)
       \o CollectFiles(Tail(files), y)

\* The loop over the directories of session/ or message/: a directory whose
\* readdir fails is skipped.
RECURSIVE CollectDirs(_, _)
CollectDirs(dirs, y) ==
  IF dirs = <<>> THEN <<>>
  ELSE (IF Head(dirs).readable THEN CollectFiles(Head(dirs).files, y) ELSE <<>>)
       \o CollectDirs(Tail(dirs), y)

Return(v) == [ok |-> TRUE, error |-> "", value |-> v]

Throw(e) == [ok |-> FALSE, error |-> e, value |-> <<>>]

\* A variant that takes a missing session/ for an empty one.
CollectSessionsLenient(y) ==
  IF CanReaddir("session")
  THEN Return(CollectDirs(fs.session.dirs, y))
  ELSE Return(<<>>)

CollectSessions(y) ==
  IF CanReaddir("session")
  THEN Return(CollectDirs(fs.session.dirs, y))
  ELSE Throw("Failed to read sessions")

CollectMessages(y) ==
  IF CanReaddir("message")
  THEN Return(CollectDirs(fs.message.dirs, y))
  ELSE Throw("Failed to read messages")

CollectAllSessions == CollectSessions(0)

CollectProjects ==
  IF CanReaddir("project")
  THEN Return(CollectFiles(fs.project.files, 0))
  ELSE Return(<<>>)

-----------------------------------------------------------------------------
(* calculateStats: tokens, cost, rankings *)

\* x || 0
OrZero(x) == IF x = Absent THEN 0 ELSE x

\* The two token loops of calculateStats (one loop in the code).
RECURSIVE TotalInputTokens(_)
TotalInputTokens(messages) ==
  IF messages = <<>> THEN 0
  ELSE (IF Head(messages).data.tokens.has
        THEN OrZero(Head(messages).data.tokens.input) ELSE 0)
       + TotalInputTokens(Tail(messages))

RECURSIVE TotalOutputTokens(_)
TotalOutputTokens(messages) ==
  IF messages = <<>> THEN 0
  ELSE (IF Head(messages).data.tokens.has
        THEN OrZero(Head(messages).data.tokens.output) ELSE 0)
       + TotalOutputTokens(Tail(messages))

\* const totalTokens = totalOutputTokens;
TotalTokens(messages) == TotalOutputTokens(messages)

\* A variant that forgets the provider.
IsAnyCost(m) == m.data.cost # Absent /\ m.data.cost # 0

\* message.providerID === "opencode" && message.cost
IsZenCost(m) ==
  m.data.providerID = FirstParty /\ m.data.cost # Absent /\ m.data.cost # 0

RECURSIVE TotalCost(_)
TotalCost(messages) ==
  IF messages = <<>> THEN 0
  ELSE (IF IsZenCost(Head(messages)) THEN Head(messages).data.cost ELSE 0)
       + TotalCost(Tail(messages))

HasZenUsage(messages) == \E i \in 1..Len(messages) : IsZenCost(messages[i])

\* A Map from id to count, its entries in insertion order: counts with one
\* more for id.
Increment(counts, id) ==
  IF \E i \in 1..Len(counts) : counts[i].id = id
  THEN [i \in 1..Len(counts) |->
          IF counts[i].id = id
          THEN [id |-> id, count |-> counts[i].count + 1] ELSE counts[i]]
  ELSE Append(counts, [id |-> id, count |-> 1])

\* modelCounts: the assistant messages that have a model id, by model id.
RECURSIVE ModelCounts(_, _)
ModelCounts(messages, counts) ==
  IF messages = <<>> THEN counts
  ELSE LET m == Head(messages).data
       IN  ModelCounts(Tail(messages),
             IF m.modelID # "" /\ m.role = "assistant"
             THEN Increment(counts, m.modelID) ELSE counts)

\* A variant that counts the messages of every role.
RECURSIVE ProviderCountsAnyRole(_, _)
ProviderCountsAnyRole(messages, counts) ==
  IF messages = <<>> THEN counts
  ELSE LET m == Head(messages).data
       IN  ProviderCountsAnyRole(Tail(messages),
             IF m.providerID # ""
             THEN Increment(counts, m.providerID) ELSE counts)

\* providerCounts: the assistant messages that have a provider id, by provider.
RECURSIVE ProviderCounts(_, _)
ProviderCounts(messages, counts) ==
  IF messages = <<>> THEN counts
  ELSE LET m == Head(messages).data
       IN  ProviderCounts(Tail(messages),
             IF m.providerID # "" /\ m.role = "assistant"
             THEN Increment(counts, m.providerID) ELSE counts)

\* A variant with the comparator's operands swapped: a[1] - b[1].
AfterAscending(a, b) == a.count - b.count > 0

\* The comparator (a, b) => b[1] - a[1] puts a after b when it is positive.
After(a, b) == b.count - a.count > 0

\* e put into the sorted sequence s behind every entry it does not go before.
RECURSIVE InsertSorted(_, _)
InsertSorted(s, e) ==
  IF s = <<>> THEN <<e>>
  ELSE IF After(Head(s), e) THEN <<e>> \o s
  ELSE <<Head(s)>> \o InsertSorted(Tail(s), e)

\* Array.prototype.sort with that comparator: a stable sort.
RECURSIVE SortByCount(_, _)
SortByCount(entries, sorted) ==
  IF entries = <<>> THEN sorted
  ELSE SortByCount(Tail(entries), InsertSorted(sorted, Head(entries)))

\* slice(0, n)
Slice(s, n) == SubSeq(s, 1, IF Len(s) < n THEN Len(s) ELSE n)

RECURSIVE SumCounts(_)
SumCounts(counts) ==
  IF counts = <<>> THEN 0 ELSE Head(counts).count + SumCounts(Tail(counts))

\* Math.round((count / total) * 100)
Percentage(count, total) == (200 * count + total) \div (2 * total)

FormatModelName(name) ==
  IF name = "gpt-5" THEN "GPT-5"
  ELSE IF name = "kimi-k2" THEN "Kimi K2"
  ELSE name

FormatProviderName(name) ==
  IF name = "opencode" THEN "OpenCode Zen"
  ELSE IF name = "anthropic" THEN "Anthropic"
  ELSE IF name = "openai" THEN "OpenAI"
  ELSE name

ModelLimit == 3

ProviderLimit == 10

TopModels(messages) ==
  LET counts == ModelCounts(messages, <<>>)
      total  == SumCounts(counts)
      sorted == SortByCount(counts, <<>>)
      stats  == [i \in 1..Len(sorted) |->
                   [name |-> FormatModelName(sorted[i].id),
                    count |-> sorted[i].count,
                    percentage |-> Percentage(sorted[i].count, total)]]
  IN  Slice(stats, ModelLimit)

TopProviders(messages) ==
  LET counts == ProviderCounts(messages, <<>>)
      total  == SumCounts(counts)
      sorted == Slice(SortByCount(counts, <<>>), ProviderLimit)
  IN  [i \in 1..Len(sorted) |->
         [name |-> FormatProviderName(sorted[i].id),
          count |-> sorted[i].count,
          percentage |-> Percentage(sorted[i].count, total)]]

-----------------------------------------------------------------------------
(* calculateStats: daily activity, streaks, most active day *)

\* formatDateKey(new Date(message.time.created)); the date of an undefined
\* created is invalid and its key is "NaN-NaN-NaN".
DateKeyOf(m) ==
  IF m.shape = "nocreated" THEN <<NaN, NaN, NaN>>
  ELSE FormatDateKey(m.data.created)

\* dailyActivity: a Map from day-key to message count, in insertion order.
RECURSIVE DailyActivity(_, _)
DailyActivity(messages, counts) ==
  IF messages = <<>> THEN counts
  ELSE DailyActivity(Tail(messages),
         Increment(counts, DateKeyOf(Head(messages))))

\* dailyActivity.has(key)
Has(daily, k) == \E i \in 1..Len(daily) : daily[i].id = k

RECURSIVE InsertKey(_, _)
InsertKey(s, k) ==
  IF s = <<>> THEN <<k>>
  ELSE IF KeyLess(k, Head(s)) THEN <<k>> \o s
  ELSE <<Head(s)>> \o InsertKey(Tail(s), k)

RECURSIVE SortKeys(_, _)
SortKeys(keys, sorted) ==
  IF keys = <<>> THEN sorted
  ELSE SortKeys(Tail(keys), InsertKey(sorted, Head(keys)))

\* A variant that leaves the keys in the order of the Map (no sort()).
ActiveDatesUnsorted(daily, y) ==
  LET keys == [i \in 1..Len(daily) |-> daily[i].id]
  IN  SelectSeq(keys, LAMBDA k : StartsWithYear(k, y))

\* Array.from(dailyActivity.keys()).filter(startsWith(String(year))).sort()
ActiveDates(daily, y) ==
  LET keys == [i \in 1..Len(daily) |-> daily[i].id]
  IN  SortKeys(SelectSeq(keys, LAMBDA k : StartsWithYear(k, y)), <<>>)

\* Math.round(x / (1000 * 60 * 60 * 24)) of a difference x of two timestamps.
RoundDays(x) == (2 * x + HoursPerDay) \div (2 * HoursPerDay)

\* A variant of the streak loop that does not start over at a gap.
RECURSIVE StreakLoopNoReset(_, _, _)
StreakLoopNoReset(activeDates, i, st) ==
  IF i > Len(activeDates) THEN st
  ELSE LET diffTime == ParseDateKey(activeDates[i]) - ParseDateKey(activeDates[i - 1])
           diffDays == RoundDays(diffTime)
       IN  StreakLoopNoReset(activeDates, i + 1,
             IF diffDays = 1
             THEN IF st.tempStreak + 1 > st.maxStreak
                  THEN [st EXCEPT !.tempStreak = st.tempStreak + 1,
                                  !.maxStreak = st.tempStreak + 1,
                                  !.maxStreakStart = st.tempStreakStart,
                                  !.maxStreakEnd = i]
                  ELSE [st EXCEPT !.tempStreak = st.tempStreak + 1]
             ELSE [st EXCEPT !.tempStreakStart = i])

\* A variant of the streak loop that lets a later run of equal length replace
\* the longest (>= for >).
RECURSIVE StreakLoopLastWins(_, _, _)
StreakLoopLastWins(activeDates, i, st) ==
  IF i > Len(activeDates) THEN st
  ELSE LET diffTime == ParseDateKey(activeDates[i]) - ParseDateKey(activeDates[i - 1])
           diffDays == RoundDays(diffTime)
       IN  StreakLoopLastWins(activeDates, i + 1,
             IF diffDays = 1
             THEN IF st.tempStreak + 1 >= st.maxStreak
                  THEN [st EXCEPT !.tempStreak = st.tempStreak + 1,
                                  !.maxStreak = st.tempStreak + 1,
                                  !.maxStreakStart = st.tempStreakStart,
                                  !.maxStreakEnd = i]
                  ELSE [st EXCEPT !.tempStreak = st.tempStreak + 1]
             ELSE [st EXCEPT !.tempStreak = 1, !.tempStreakStart = i])

\* The streak loop from index i on; st holds its local variables.
RECURSIVE StreakLoop(_, _, _)
StreakLoop(activeDates, i, st) ==
  IF i > Len(activeDates) THEN st
  ELSE LET diffTime == ParseDateKey(activeDates[i]) - ParseDateKey(activeDates[i - 1])
           diffDays == RoundDays(diffTime)
       IN  StreakLoop(activeDates, i + 1,
             IF diffDays = 1
             THEN IF st.tempStreak + 1 > st.maxStreak
                  THEN [st EXCEPT !.tempStreak = st.tempStreak + 1,
                                  !.maxStreak = st.tempStreak + 1,
                                  !.maxStreakStart = st.tempStreakStart,
                                  !.maxStreakEnd = i]
                  ELSE [st EXCEPT !.tempStreak = st.tempStreak + 1]
             ELSE [st EXCEPT !.tempStreak = 1, !.tempStreakStart = i])

\* The walk back from checkDate, a day at a time, while the day has activity.
RECURSIVE WalkBack(_, _, _)
WalkBack(daily, checkDate, streak) ==
  LET prev == checkDate - HoursPerDay
  IN  IF Has(daily, FormatDateKey(prev))
      THEN WalkBack(daily, prev, streak + 1)
      ELSE streak

CurrentStreak(daily) ==
  LET today     == FormatDateKey(now)
      yesterday == FormatDateKey(now - HoursPerDay)
  IN  IF Has(daily, today) THEN WalkBack(daily, now, 1)
      ELSE IF Has(daily, yesterday) THEN WalkBack(daily, now - HoursPerDay, 1)
      ELSE 0

\* A variant whose loop over the streak's days stops before maxStreakEnd.
CalculateStreaksShort(daily, y) ==
  LET activeDates == ActiveDates(daily, y)
  IN  IF Len(activeDates) = 0
      THEN [maxStreak |-> 0, currentStreak |-> 0, maxStreakDays |-> {}]
      ELSE LET st == StreakLoop(activeDates, 2,
                       [maxStreak |-> 1, tempStreak |-> 1, tempStreakStart |-> 1,
                        maxStreakStart |-> 1, maxStreakEnd |-> 1])
           IN  [maxStreak |-> st.maxStreak,
                currentStreak |-> CurrentStreak(daily),
                maxStreakDays |->
                  {activeDates[i] : i \in st.maxStreakStart..(st.maxStreakEnd - 1)}]

\* Indices of activeDates are 1-based here: the code's i is the model's i - 1.
CalculateStreaks(daily, y) ==
  LET activeDates == ActiveDates(daily, y)
  IN  IF Len(activeDates) = 0
      THEN [maxStreak |-> 0, currentStreak |-> 0, maxStreakDays |-> {}]
      ELSE LET st == StreakLoop(activeDates, 2,
                       [maxStreak |-> 1, tempStreak |-> 1, tempStreakStart |-> 1,
                        maxStreakStart |-> 1, maxStreakEnd |-> 1])
           IN  [maxStreak |-> st.maxStreak,
                currentStreak |-> CurrentStreak(daily),
                maxStreakDays |->
                  {activeDates[i] : i \in st.maxStreakStart..st.maxStreakEnd}]

NoDay == [isNull |-> TRUE, date |-> <<0, 0, 0>>, count |-> 0, formattedDate |-> <<0, 0>>]

\* The scan of findMostActiveDay from entry i on.
RECURSIVE ScanMostActive(_, _, _, _)
ScanMostActive(daily, i, maxDate, maxCount) ==
  IF i > Len(daily) THEN <<maxDate, maxCount>>
  ELSE IF daily[i].count > maxCount
  THEN ScanMostActive(daily, i + 1, daily[i].id, daily[i].count)
  ELSE ScanMostActive(daily, i + 1, maxDate, maxCount)

\* formattedDate is the month and the day of the key ("Jan 5" is <<1, 5>>).
FindMostActiveDay(daily) ==
  IF Len(daily) = 0 THEN NoDay
  ELSE LET r == ScanMostActive(daily, 1, <<0, 0, 0>>, 0)
       IN  IF r[1] = <<0, 0, 0>> THEN NoDay
           ELSE [isNull |-> FALSE, date |-> r[1], count |-> r[2],
                 formattedDate |-> <<r[1][2], r[1][3]>>]

-----------------------------------------------------------------------------
(* calculateStats *)

\* Math.min(...allSessions.map((s) => s.time.created)): NaN when a session
\* has no created.
RECURSIVE MinCreated(_)
MinCreated(sessions) ==
  IF Head(sessions).shape = "nocreated" THEN NaN
  ELSE IF Len(sessions) = 1 THEN Head(sessions).data.created
  ELSE LET rest == MinCreated(Tail(sessions))
       IN  IF rest = NaN THEN NaN
           ELSE IF Head(sessions).data.created < rest
                THEN Head(sessions).data.created ELSE rest

\* Math.floor((Date.now() - first) / (1000 * 60 * 60 * 24))
DaysSince(first) == IF first = NaN THEN NaN ELSE (now - first) \div HoursPerDay

CalculateStats(y) ==
  LET sessions    == CollectSessions(y)
      messages    == CollectMessages(y)
      projects    == CollectProjects
      allSessions == CollectAllSessions
  IN  IF ~sessions.ok THEN sessions
      ELSE IF ~messages.ok THEN messages
      ELSE IF ~allSessions.ok THEN allSessions
      ELSE IF \/ \E i \in 1..Len(allSessions.value) :
                   allSessions.value[i].shape = "notime"
              \/ \E i \in 1..Len(messages.value) :
                   messages.value[i].shape = "notime"
      THEN Throw("TypeError")
      ELSE
        LET first   == IF Len(allSessions.value) = 0 THEN now
                       ELSE MinCreated(allSessions.value)
            daily   == DailyActivity(messages.value, <<>>)
            streaks == CalculateStreaks(daily, y)
        IN  Return(
              [year |-> y,
               firstSessionDate |-> first,
               daysSinceFirstSession |->
                 IF Len(allSessions.value) = 0 THEN 0 ELSE DaysSince(first),
               totalSessions |-> Len(sessions.value),
               totalMessages |-> Len(messages.value),
               totalProjects |-> Len(projects.value),
               totalInputTokens |-> TotalInputTokens(messages.value),
               totalOutputTokens |-> TotalOutputTokens(messages.value),
               totalTokens |-> TotalTokens(messages.value),
               totalCost |-> TotalCost(messages.value),
               hasZenUsage |-> HasZenUsage(messages.value),
               topModels |-> TopModels(messages.value),
               topProviders |-> TopProviders(messages.value),
               maxStreak |-> streaks.maxStreak,
               currentStreak |-> streaks.currentStreak,
               maxStreakDays |-> streaks.maxStreakDays,
               dailyActivity |-> daily,
               mostActiveDay |-> FindMostActiveDay(daily)])

-----------------------------------------------------------------------------
(* The price table cache and the availability check *)

NoPricing == [found |-> FALSE, input |-> 0, output |-> 0,
              cacheRead |-> Absent, cacheWrite |-> Absent]

\* getModelPricing(modelId): cachedData.models[modelId]?.cost
GetModelPricing(modelId) ==
  IF cachedData.isNull THEN NoPricing
  ELSE IF \E e \in cachedData.models : e.id = modelId /\ e.cost.found
       THEN (CHOOSE e \in cachedData.models : e.id = modelId).cost
       ELSE NoPricing

\* A variant that opens the current year a day later, on the 21st.
IsWrappedAvailableFromThe21st(y) ==
  LET today == FormatDateKey(now)
  IN  IF y # NaN /\ y < today[1] THEN TRUE
      ELSE IF y # NaN /\ y > today[1] THEN FALSE
      ELSE ~(today[2] < 12 \/ (today[2] = 12 /\ today[3] < 21))

\* isWrappedAvailable(y).available; both comparisons are false of NaN.
IsWrappedAvailable(y) ==
  LET today == FormatDateKey(now)
  IN  IF y # NaN /\ y < today[1] THEN TRUE
      ELSE IF y # NaN /\ y > today[1] THEN FALSE
      ELSE ~(today[2] < 12 \/ (today[2] = 12 /\ today[3] < 20))

-----------------------------------------------------------------------------
(* Bounds and the inputs the initial states are drawn from *)

\* Messages in a corpus of the token and cost family.
MaxCostMsgs == 2

\* Messages in a corpus of the ranking family.
MaxRankMsgs == 4

\* Distinct providers (and models) in a corpus of the many-providers family.
MaxProviders == 11

\* The timestamp of hour h of the civil day <<y, m, d>>.
At(y, m, d, h) == DaysFromCivil(<<y, m, d>>) * HoursPerDay + h

SeqsUpTo(S, n) == UNION {[1..k -> S] : k \in 0..n}

NoCache == [read |-> 0, write |-> 0]

NoTokens == [has |-> FALSE, input |-> Absent, output |-> Absent, cache |-> NoCache]

Tokens(i, o) == [has |-> TRUE, input |-> i, output |-> o, cache |-> NoCache]

Msg(role, created, modelID, providerID, cost, tokens) ==
  [role |-> role, created |-> created, modelID |-> modelID,
   providerID |-> providerID, cost |-> cost, tokens |-> tokens]

File(ext, shape, data) == [ext |-> ext, shape |-> shape, data |-> data]

MsgFile(m) == File("json", "ok", m)

PlainMsg(created) ==
  Msg("assistant", created, "gpt-5", "openai", Absent, NoTokens)

SessionFile(created) == File("json", "ok", [created |-> created])

ProjectFile == File("json", "ok", [created |-> 0])

Dir(files) == [readable |-> TRUE, files |-> files]

\* A corpus whose directories are all there: one directory of sessions, one of
\* messages.
Corpus(sessionFiles, messageFiles) ==
  [root |-> TRUE,
   session |-> [exists |-> TRUE, dirs |-> <<Dir(sessionFiles)>>],
   message |-> [exists |-> TRUE, dirs |-> <<Dir(messageFiles)>>],
   project |-> [exists |-> TRUE, files |-> <<ProjectFile>>]]

NullData == [isNull |-> TRUE, models |-> {}]

EmptyData == [isNull |-> FALSE, models |-> {}]

\* A fetched table: one model priced at 3 and 15 per million tokens, one
\* priced with cache rates, one listed without a cost.
PricedData ==
  [isNull |-> FALSE,
   models |->
     {[id |-> "claude", cost |-> [found |-> TRUE, input |-> 3, output |-> 15,
                                    cacheRead |-> Absent, cacheWrite |-> Absent]],
      [id |-> "gpt-5", cost |-> [found |-> TRUE, input |-> 1, output |-> 10,
                                   cacheRead |-> 1, cacheWrite |-> 2]],
      [id |-> "kimi-k2", cost |-> NoPricing]}]

Input(f, n, y, c) == [fs |-> f, now |-> n, year |-> y, cachedData |-> c]

NewYear == At(2026, 1, 2, 10)

YearEnd == At(2025, 12, 31, 10)

OldSession == SessionFile(At(2024, 6, 1, 9))

\* Token and cost family: a few messages of 2025 that differ in provider, cost
\* and token breakdown.
CostMsgs ==
  {Msg("assistant", At(2025, 12, 24, 8), "claude", p, c, t) :
     p \in {FirstParty, "anthropic"}, c \in {Absent, 0, 42},
     t \in {NoTokens, Tokens(100, 50)}}
  \cup {Msg("assistant", At(2025, 12, 24, 8), "kimi-k2", "moonshot", 5, Tokens(Absent, 7)),
        Msg("assistant", At(2025, 12, 24, 8), "gpt-5", "openai", Absent,
            [Tokens(20, 10) EXCEPT !.cache = [read |-> 400, write |-> 30]])}

CostInputs ==
  {Input(Corpus(<<OldSession>>, [i \in 1..Len(ms) |-> MsgFile(ms[i])]), YearEnd, 2025, c) :
     ms \in SeqsUpTo(CostMsgs, MaxCostMsgs), c \in {NullData, EmptyData, PricedData}}

\* Ranking family: every order of a few messages of 2025 that differ in role,
\* model and provider.
RankMsgs ==
  {Msg("assistant", At(2025, 12, 24, 8), "claude", "anthropic", Absent, NoTokens),
   Msg("assistant", At(2025, 12, 24, 8), "gpt-5", "openai", Absent, NoTokens),
   Msg("assistant", At(2025, 12, 25, 8), "kimi-k2", "moonshot", Absent, NoTokens),
   Msg("assistant", At(2025, 12, 25, 8), "glm", FirstParty, Absent, NoTokens),
   Msg("user", At(2025, 12, 25, 8), "grok", "xai", Absent, NoTokens),
   Msg("assistant", At(2025, 12, 26, 8), "", "", Absent, NoTokens)}

RankInputs ==
  {Input(Corpus(<<OldSession>>, [i \in 1..Len(ms) |-> MsgFile(ms[i])]), YearEnd, 2025, NullData) :
     ms \in SeqsUpTo(RankMsgs, MaxRankMsgs)}

\* Many-providers family: n providers, each with a model of its own and one
\* assistant message, and provider j with a second message at the end.
Names == <<"a01", "a02", "a03", "a04", "a05", "a06", "a07", "a08", "a09",
           "a10", "a11", "a12", "a13", "a14">>

ManyMsgs(n, j) ==
  [i \in 1..n |->
     Msg("assistant", At(2025, 12, 24, 8), Names[i], Names[i], Absent, NoTokens)]
  \o (IF j = 0 THEN <<>>
      ELSE <<Msg("assistant", At(2025, 12, 24, 9), Names[j], Names[j], Absent, NoTokens)>>)

ManyInputs ==
  {Input(Corpus(<<OldSession>>,
                [i \in 1..Len(ManyMsgs(nj[1], nj[2])) |-> MsgFile(ManyMsgs(nj[1], nj[2])[i])]),
         YearEnd, 2025, NullData) :
     nj \in {x \in (0..MaxProviders) \X (0..MaxProviders) : x[2] <= x[1]}}


\* Streak family: one message on each day of a subset of these days, the
\* files enumerated in this (not chronological) order.
StreakDays ==
  <<<<2025, 1, 10>>, <<2025, 1, 2>>, <<2025, 12, 31>>, <<2025, 1, 1>>,
    <<2026, 1, 1>>, <<2025, 3, 1>>, <<2025, 1, 3>>, <<2024, 12, 31>>,
    <<2025, 2, 28>>, <<2026, 1, 2>>, <<2025, 12, 30>>>>

StreakFiles(mask) ==
  LET days == SelectSeq(StreakDays, LAMBDA k : k \in mask)
  IN  [i \in 1..Len(days) |-> MsgFile(PlainMsg(DaysFromCivil(days[i]) * HoursPerDay + 9))]

StreakInputs ==
  {Input(Corpus(<<OldSession, SessionFile(At(2025, 1, 1, 8))>>, StreakFiles(mask)),
         n, 2025, NullData) :
     mask \in SUBSET {StreakDays[i] : i \in 1..Len(StreakDays)}, n \in {YearEnd, NewYear}}

\* Year-end family: one message on each day of a subset of the last days of
\* 2025 and the first of 2026, read on the last day of 2025 or the day after.
RecentDays ==
  <<<<2025, 12, 29>>, <<2025, 12, 31>>, <<2025, 12, 27>>, <<2026, 1, 1>>,
    <<2025, 12, 30>>, <<2025, 12, 28>>, <<2025, 12, 26>>>>

RecentFiles(mask) ==
  LET days == SelectSeq(RecentDays, LAMBDA k : k \in mask)
  IN  [i \in 1..Len(days) |-> MsgFile(PlainMsg(DaysFromCivil(days[i]) * HoursPerDay + 9))]

RecentInputs ==
  {Input(Corpus(<<OldSession, SessionFile(At(2025, 1, 1, 8))>>, RecentFiles(mask)),
         n, 2025, NullData) :
     mask \in SUBSET {RecentDays[i] : i \in 1..Len(RecentDays)},
     n \in {YearEnd, At(2026, 1, 1, 10)}}

\* Day-boundary family: every order of a few messages created in the first
\* and the last hour of a day, on either side of the turn of the year.
DailyMsgs ==
  {PlainMsg(At(2025, 12, 24, 0)), PlainMsg(At(2025, 12, 24, 23)),
   PlainMsg(At(2024, 12, 31, 23)), PlainMsg(At(2025, 1, 1, 0))}

DailyInputs ==
  {Input(Corpus(<<OldSession>>, [i \in 1..Len(ms) |-> MsgFile(ms[i])]), YearEnd, 2025, NullData) :
     ms \in SeqsUpTo(DailyMsgs, MaxRankMsgs)}

\* Corpus family: directories that are missing or unreadable and files that
\* are malformed, beside well-formed records of 2024 and 2025.
NoSession == [created |-> Absent]

NoMessage == Msg("assistant", Absent, "gpt-5", "openai", Absent, NoTokens)

SessionExtras ==
  {OldSession, SessionFile(At(2023, 2, 1, 9)),
   File("json", "unparsable", NoSession), File("json", "notime", NoSession),
   File("json", "nocreated", NoSession), File("txt", "ok", [created |-> At(2025, 4, 1, 9)])}

MessageExtras ==
  {MsgFile(PlainMsg(At(2025, 12, 24, 8))), MsgFile(PlainMsg(At(2024, 7, 1, 8))),
   File("json", "unparsable", NoMessage), File("json", "notime", NoMessage),
   File("json", "nocreated", NoMessage), File("txt", "ok", PlainMsg(At(2025, 4, 1, 9)))}

ProjectExtras ==
  {ProjectFile, File("json", "unparsable", [created |-> 0]),
   File("json", "notime", [created |-> 0])}

FsCorpora ==
  {[root |-> TRUE,
    session |-> [exists |-> se,
                 dirs |-> <<[readable |-> r, files |-> <<SessionFile(At(2025, 3, 1, 9))>>],
                            Dir(<<xs>>)>>],
    message |-> [exists |-> me,
                 dirs |-> <<Dir(<<MsgFile(PlainMsg(At(2024, 6, 1, 10))), xm>>)>>],
    project |-> [exists |-> pe, files |-> <<ProjectFile, xp>>]] :
     se \in BOOLEAN, me \in BOOLEAN, pe \in BOOLEAN, r \in BOOLEAN,
     xs \in SessionExtras, xm \in MessageExtras, xp \in ProjectExtras}

NoCorpus ==
  [root |-> FALSE,
   session |-> [exists |-> FALSE, dirs |-> <<>>],
   message |-> [exists |-> FALSE, dirs |-> <<>>],
   project |-> [exists |-> FALSE, files |-> <<>>]]

FsInputs ==
  {Input(f, n, 2025, NullData) : f \in FsCorpora \cup {NoCorpus}, n \in {YearEnd, NewYear}}

Inputs ==
  CostInputs \cup RankInputs \cup ManyInputs \cup StreakInputs \cup RecentInputs
    \cup DailyInputs \cup FsInputs

-----------------------------------------------------------------------------
(* The state machine: a corpus, a clock, and one call into the program *)

NoResult == [call |-> "none", arg |-> 0, ok |-> TRUE, error |-> "", value |-> <<>>]

\* No command line run: the functions are called directly.
NoCli == [entry |-> "none", argv |-> "run", pc |-> "exited", exitCode |-> Absent,
          outcome |-> "", summary |-> FALSE, image |-> FALSE,
          checked |-> FALSE, saved |-> "", copied |-> ""]

\* No call of generateWeeksForYear, of copyImageToClipboard, of the Linux
\* provider's copyImage, and no run of the postinstall script.
NoWeeksRun == [pc |-> "none"]

NoClip == [pc |-> "none"]

NoLinux == [pc |-> "none"]

NoInstall == [pc |-> "none"]

OthersIdle ==
  /\ weeksRun = NoWeeksRun
  /\ clip = NoClip
  /\ linux = NoLinux
  /\ install = NoInstall

NoPrevious == [fs |-> <<>>, now |-> 0, result |-> NoResult]

Called(name, arg, r) ==
  [call |-> name, arg |-> arg, ok |-> r.ok, error |-> r.error, value |-> r.value]

\* The corpus and the clock are those of a run the command line lets through
\* to calculateStats: the year is one isWrappedAvailable accepts.
Init ==
  /\ \E in \in Inputs :
       /\ fs = in.fs
       /\ now = in.now
       /\ year = in.year
       /\ cachedData = in.cachedData
  /\ IsWrappedAvailable(year)
  /\ result = NoResult
  /\ cli = NoCli
  /\ previous = NoPrevious
  /\ calls = <<>>
  /\ fetches = 0
  /\ OthersIdle

RunCalculateStats ==
  /\ result.call = "none"
  /\ result' = Called("calculateStats", year, CalculateStats(year))
  /\ UNCHANGED <<fs, now, year, cachedData, cli, previous, calls, fetches>> /\ UNCHANGED others

RunCollectSessions ==
  /\ result.call = "none"
  /\ \E y \in {0, year} : result' = Called("collectSessions", y, CollectSessions(y))
  /\ UNCHANGED <<fs, now, year, cachedData, cli, previous, calls, fetches>> /\ UNCHANGED others

RunCollectMessages ==
  /\ result.call = "none"
  /\ \E y \in {0, year} : result' = Called("collectMessages", y, CollectMessages(y))
  /\ UNCHANGED <<fs, now, year, cachedData, cli, previous, calls, fetches>> /\ UNCHANGED others

RunCollectAllSessions ==
  /\ result.call = "none"
  /\ result' = Called("collectAllSessions", 0, CollectAllSessions)
  /\ UNCHANGED <<fs, now, year, cachedData, cli, previous, calls, fetches>> /\ UNCHANGED others

RunCollectProjects ==
  /\ result.call = "none"
  /\ result' = Called("collectProjects", 0, CollectProjects)
  /\ UNCHANGED <<fs, now, year, cachedData, cli, previous, calls, fetches>> /\ UNCHANGED others

Next ==
  \/ RunCalculateStats
  \/ RunCollectSessions
  \/ RunCollectMessages
  \/ RunCollectAllSessions
  \/ RunCollectProjects

Spec == Init /\ [][Next]_vars

-----------------------------------------------------------------------------
(* The command line: main of src/src/index.ts and main of part_001 *)

\* Where the two versions of main differ: index.ts validates the year and
\* exits 1 when there is no corpus or no activity.
IndexTs == [validatesYear |-> TRUE, noDataCode |-> 1, noActivityCode |-> 1]

\* part_001 passes any parsed year on and exits 0 in both cases.
Part001 == [validatesYear |-> FALSE, noDataCode |-> 0, noActivityCode |-> 0]

Main == IF cli.entry = "index.ts" THEN IndexTs ELSE Part001

\* isNaN(requestedYear) || requestedYear < 2020 || requestedYear > currentYear + 1
InvalidYear(y) == y = NaN \/ y < 2020 \/ y > GetFullYear(now) + 1

\* process.exit(code) after the message of the outcome.
Exit(code, outcome) ==
  [cli EXCEPT !.pc = "exited", !.exitCode = code, !.outcome = outcome]

\* parseArgs, --help, --version, the year and the availability check.  An
\* option parseArgs does not know makes it throw, which main().catch reports.
MainStart ==
  /\ cli.pc = "start"
  /\ cli' = IF cli.argv = "unknown option" THEN Exit(1, "unexpected error")
            ELSE IF cli.argv = "help" THEN Exit(0, "help")
            ELSE IF cli.argv = "version" THEN Exit(0, "version")
            ELSE IF Main.validatesYear /\ InvalidYear(year) THEN Exit(1, "invalid year")
            ELSE IF ~IsWrappedAvailable(year) THEN Exit(0, "not available")
            ELSE [cli EXCEPT !.pc = "data"]
  /\ UNCHANGED <<fs, now, year, cachedData, result, previous, calls, fetches>> /\ UNCHANGED others

\* A variant that takes the corpus to be there without a look.
DataTakenToExist == TRUE

\* checkOpenCodeDataExists(): readdir of the corpus root succeeds.
CheckOpenCodeDataExists == fs.root

MainCheckData ==
  /\ cli.pc = "data"
  /\ cli' = IF CheckOpenCodeDataExists
            THEN [cli EXCEPT !.pc = "stats", !.checked = TRUE]
            ELSE [Exit(Main.noDataCode, "data not found") EXCEPT !.checked = TRUE]
  /\ UNCHANGED <<fs, now, year, cachedData, result, previous, calls, fetches>> /\ UNCHANGED others

\* calculateStats(requestedYear) in its try, the check of totalSessions, and
\* the summary note.
MainStats ==
  /\ cli.pc = "stats"
  /\ LET r == CalculateStats(year)
     IN  /\ result' = Called("calculateStats", year, r)
         /\ cli' = IF ~r.ok THEN Exit(1, "stats failed")
                   ELSE IF r.value.totalSessions = 0
                        THEN Exit(Main.noActivityCode, "no activity")
                   ELSE [cli EXCEPT !.pc = "image", !.summary = TRUE]
  /\ UNCHANGED <<fs, now, year, cachedData, previous, calls, fetches>> /\ UNCHANGED others

\* generateImage(stats) in its try: it returns an image or throws.
MainImage ==
  /\ cli.pc = "image"
  /\ \E thrown \in BOOLEAN :
       cli' = IF thrown THEN Exit(1, "image failed")
              ELSE [cli EXCEPT !.pc = "prompts", !.image = TRUE]
  /\ UNCHANGED <<fs, now, year, cachedData, result, previous, calls, fetches>> /\ UNCHANGED others

\* The two versions ask their two questions in opposite orders: index.ts
\* asks to save and then to copy, part_001 to copy and then to save.
FirstPrompt == IF cli.entry = "index.ts" THEN "save" ELSE "copy"

\* Where main goes after a prompt: to the other prompt, or to the outro and
\* the end of the run with code 0.
AfterPrompt(c, prompt) ==
  IF prompt = FirstPrompt THEN [c EXCEPT !.pc = "second prompt"]
  ELSE [c EXCEPT !.pc = "exited", !.exitCode = 0, !.outcome = "done"]

\* The save prompt: cancelled it ends the run with code 0; answered yes,
\* Bun.write(defaultPath, ..) runs in a try whose catch logs the failure.
MainSave ==
  /\ cli.pc = (IF FirstPrompt = "save" THEN "prompts" ELSE "second prompt")
  /\ \E answer \in {"yes", "no", "cancel"}, written \in BOOLEAN :
       cli' = IF answer = "cancel" THEN Exit(0, "cancelled")
              ELSE IF answer = "no"
                   THEN AfterPrompt([cli EXCEPT !.saved = "declined"], "save")
              ELSE IF written
                   THEN AfterPrompt([cli EXCEPT !.saved = "saved"], "save")
              ELSE AfterPrompt([cli EXCEPT !.saved = "failed"], "save")
  /\ UNCHANGED <<fs, now, year, cachedData, result, previous, calls, fetches>> /\ UNCHANGED others

\* The copy prompt: a cancel counts as a no.  index.ts awaits its
\* copyImageToClipboard (setImageBinary: it resolves or throws) in a try whose
\* catch logs the failure.  part_001 awaits the copyImageToClipboard of the
\* clipboard module outside any try: a result of failure is logged as a
\* warning, a rejection leaves main and reaches main().catch, which exits 1.
MainCopy ==
  /\ cli.pc = (IF FirstPrompt = "copy" THEN "prompts" ELSE "second prompt")
  /\ \E answer \in {"yes", "no", "cancel"},
        copy \in {"success", "failure", "thrown"} :
       /\ cli.entry = "index.ts" => copy # "failure"
       /\ cli' = IF answer # "yes"
                 THEN AfterPrompt([cli EXCEPT !.copied = "declined"], "copy")
                 ELSE IF copy = "success"
                      THEN AfterPrompt([cli EXCEPT !.copied = "copied"], "copy")
                 ELSE IF copy = "failure" \/ cli.entry = "index.ts"
                      THEN AfterPrompt([cli EXCEPT !.copied = "failed"], "copy")
                 ELSE [Exit(1, "unexpected error") EXCEPT !.copied = "thrown"]
  /\ UNCHANGED <<fs, now, year, cachedData, result, previous, calls, fetches>> /\ UNCHANGED others

\* What parseInt(values.year, 10) can give beside the current year.
YearArgs == {NaN, 0, 2019, 2024, 2025, 2026, 2027}

\* The clocks of a run: the last hour before wrapped opens, the first hour
\* it is open, the end of the year and the start of the next.
MainClocks == {At(2025, 12, 19, 23), At(2025, 12, 20, 0), YearEnd, NewYear}

MainCorpora ==
  {f \in FsCorpora : f.project.exists /\ f.project.files[2] = ProjectFile} \cup {NoCorpus}

InitMain ==
  /\ fs \in MainCorpora
  /\ now \in MainClocks
  /\ year \in YearArgs \cup {GetFullYear(now)}
  /\ cachedData = NullData
  /\ result = NoResult
  /\ \E e \in {"index.ts", "part_001"},
        a \in {"run", "help", "version", "unknown option"} :
       /\ a # "run" => fs = NoCorpus /\ year = GetFullYear(now)
       /\ cli = [NoCli EXCEPT !.entry = e, !.argv = a, !.pc = "start"]
  /\ previous = NoPrevious
  /\ calls = <<>>
  /\ fetches = 0
  /\ OthersIdle

NextMain ==
  \/ MainStart
  \/ MainCheckData
  \/ MainStats
  \/ MainImage
  \/ MainSave
  \/ MainCopy

SpecMain == InitMain /\ [][NextMain]_vars

-----------------------------------------------------------------------------

(* Two runs of calculateStats over the same records *)

\* Messages in a corpus that is read twice.
MaxTwiceMsgs == 3

\* The orders in which readdir may list n entries.
Perms(n) == {f \in [1..n -> 1..n] : \A i, j \in 1..n : f[i] = f[j] => i = j}

Permuted(s, f) == [i \in 1..Len(s) |-> s[f[i]]]

\* The corpus with the files of its first session directory listed in order f
\* and those of its first message directory in order g.
Reordered(f, g) ==
  [fs EXCEPT !.session.dirs[1].files = Permuted(@, f),
             !.message.dirs[1].files = Permuted(@, g)]

\* The process ends and another starts later over the same files, which
\* readdir lists in an order of its own.
StartOver ==
  /\ result.call = "calculateStats"
  /\ previous = NoPrevious
  /\ previous' = [fs |-> fs, now |-> now, result |-> result]
  /\ result' = NoResult
  /\ \E f \in Perms(Len(fs.session.dirs[1].files)),
        g \in Perms(Len(fs.message.dirs[1].files)) : fs' = Reordered(f, g)
  /\ now' \in {now, now + HoursPerDay}
  /\ UNCHANGED <<year, cachedData, cli, calls, fetches>> /\ UNCHANGED others

TwiceInputs ==
  {Input(Corpus(ss, [i \in 1..Len(ms) |-> MsgFile(ms[i])]), YearEnd - HoursPerDay, 2025, NullData) :
     ss \in {<<>>, <<SessionFile(At(2025, 1, 1, 8)), OldSession>>},
     ms \in SeqsUpTo(RankMsgs, MaxTwiceMsgs)}

InitTwice ==
  /\ \E in \in TwiceInputs :
       /\ fs = in.fs
       /\ now = in.now
       /\ year = in.year
       /\ cachedData = in.cachedData
  /\ result = NoResult
  /\ cli = NoCli
  /\ previous = NoPrevious
  /\ calls = <<>>
  /\ fetches = 0
  /\ OthersIdle

NextTwice ==
  \/ RunCalculateStats
  \/ StartOver

SpecTwice == InitTwice /\ [][NextTwice]_vars

-----------------------------------------------------------------------------

(* fetchModelsData: the calls of one process and their awaits *)

\* fetchModelsData calls in the life of the process.
MaxCalls == 3

\* A call that found the cache filled returns it at once.
Cached == [pc |-> "resolved", fetched |-> FALSE, cause |-> "", value |-> cachedData]

\* A call that found the cache empty issues the fetch and awaits it.
Fetching == [pc |-> "fetch", fetched |-> TRUE, cause |-> "", value |-> NullData]

\* A variant of the catch block that returns the empty table without caching
\* it.
CaughtUncached(cause) ==
  [cache |-> cachedData,
   call  |-> [pc |-> "resolved", fetched |-> TRUE, cause |-> cause, value |-> EmptyData]]

\* The catch block: cachedData = { models: {}, providers: {} }; return it.
Caught(cause) ==
  [cache |-> EmptyData,
   call  |-> [pc |-> "resolved", fetched |-> TRUE, cause |-> cause, value |-> EmptyData]]

\* The end of the try block: the table built from the body is cached and
\* returned.
Parsed(table) ==
  [cache |-> table,
   call  |-> [pc |-> "resolved", fetched |-> TRUE, cause |-> "", value |-> table]]

\* A call starts: if (cachedData) return cachedData; else fetch(...).
FetchModelsData ==
  /\ Len(calls) < MaxCalls
  /\ IF ~cachedData.isNull
     THEN calls' = Append(calls, Cached) /\ fetches' = fetches
     ELSE calls' = Append(calls, Fetching) /\ fetches' = fetches + 1
  /\ UNCHANGED <<fs, now, year, cachedData, result, cli, previous>> /\ UNCHANGED others

\* await fetch(...) of call i settles: a response, or a rejection (network
\* error, or the abort of AbortSignal.timeout(5000)); a response that is not
\* ok is thrown as "HTTP <status>".
FetchSettles(i) ==
  /\ i \in 1..Len(calls)
  /\ calls[i].pc = "fetch"
  /\ \E response \in {"ok", "network error", "timeout", "status"} :
       IF response = "ok"
       THEN calls' = [calls EXCEPT ![i].pc = "json"] /\ cachedData' = cachedData
       ELSE /\ calls' = [calls EXCEPT ![i] = Caught(response).call]
            /\ cachedData' = Caught(response).cache
  /\ UNCHANGED <<fs, now, year, result, cli, previous, fetches>> /\ UNCHANGED others

\* await response.json() of call i settles: a body that lists priced models,
\* a body that is no object, or a rejection (no JSON, or the abort).
JsonSettles(i) ==
  /\ i \in 1..Len(calls)
  /\ calls[i].pc = "json"
  /\ \E body \in {"table", "no object", "unparsable", "timeout"} :
       LET end == IF body = "table" THEN Parsed(PricedData)
                  ELSE IF body = "no object" THEN Parsed(EmptyData)
                  ELSE Caught(body)
       IN  calls' = [calls EXCEPT ![i] = end.call] /\ cachedData' = end.cache
  /\ UNCHANGED <<fs, now, year, result, cli, previous, fetches>> /\ UNCHANGED others

InitFetch ==
  /\ fs = NoCorpus
  /\ now = YearEnd
  /\ year = 2025
  /\ cachedData = NullData
  /\ result = NoResult
  /\ cli = NoCli
  /\ previous = NoPrevious
  /\ calls = <<>>
  /\ fetches = 0
  /\ OthersIdle

NextFetch ==
  \/ FetchModelsData
  \/ \E i \in 1..MaxCalls : FetchSettles(i)
  \/ \E i \in 1..MaxCalls : JsonSettles(i)

\* Each await settles: the abort signal ends a fetch or a body that does not
\* end by itself.
SpecFetch ==
  /\ InitFetch /\ [][NextFetch]_vars
  /\ \A i \in 1..MaxCalls : WF_vars(FetchSettles(i)) /\ WF_vars(JsonSettles(i))

-----------------------------------------------------------------------------

(* generateWeeksForYear of src/src/utils/dates.ts, one pass of its loop a step *)

\* What every specification outside the stats engine leaves alone: no
\* corpus, no price table, no call into the collectors, no run of main.
EngineIdle ==
  /\ fs = NoCorpus
  /\ cachedData = NullData
  /\ result = NoResult
  /\ cli = NoCli
  /\ previous = NoPrevious
  /\ calls = <<>>
  /\ fetches = 0

\* The year new Date(y, ..) makes of its first argument: Date reads a year
\* of 0..99 as 1900 + y.
DateYear(y) == IF y \in 0..99 THEN 1900 + y ELSE y

\* new Date(y, m - 1, d).getTime(), in hours: local midnight of the day.
NewDate(y, m, d) == At(DateYear(y), m, d, 0)

\* new Date(ts).getDay(): 0 is Sunday; 1970-01-01 was a Thursday.
GetDay(ts) == (DayOf(ts) + 4) % 7

\* The "" generateWeeksForYear pads a week with, beside day-keys that are
\* triples.
Pad == <<>>

\* endDate: now in the current year, else the 31st of December.
EndDate(y) == IF y = GetFullYear(now) THEN now ELSE NewDate(y, 12, 31)

\* adjustedStart: the Sunday on or before the 1st of January.
AdjustedStart(y) == NewDate(y, 1, 1) - GetDay(NewDate(y, 1, 1)) * HoursPerDay

\* currentWeek.length > 0 && currentWeek.some(d => d !== "")
SomeDate(week) == Len(week) > 0 /\ \E i \in 1..Len(week) : week[i] # Pad

\* The condition of the while loop.  An invalid Date (NaN year) compares
\* false with everything.
LoopCondition ==
  \/ year # NaN /\ weeksRun.currentDate <= EndDate(year)
  \/ Len(weeksRun.currentWeek) > 0

\* Lines 4-22: the declarations before the loop.
WeeksStart ==
  /\ weeksRun.pc = "called"
  /\ weeksRun' = [pc |-> "loop",
                  currentDate |-> IF year = NaN THEN NaN ELSE AdjustedStart(year),
                  currentWeek |-> <<>>,
                  weeks |-> <<>>]
  /\ UNCHANGED <<fs, now, year, cachedData, result, cli, previous, calls, fetches>>
  /\ UNCHANGED <<clip, linux, install>>

\* One pass of the loop body, lines 25-49.
WeeksPass ==
  /\ weeksRun.pc = "loop"
  /\ LoopCondition
  /\ LET d      == weeksRun.currentDate
         inYear == GetFullYear(d) = year
         pushed == IF inYear /\ d <= EndDate(year)
                   THEN Append(weeksRun.currentWeek, FormatDateKey(d))
                   ELSE IF inYear THEN Append(weeksRun.currentWeek, Pad)
                   ELSE weeksRun.currentWeek
         next   == d + HoursPerDay
     IN  weeksRun' =
           [pc |-> IF GetFullYear(next) > year + 1 THEN "after loop" ELSE "loop",
            currentDate |-> next,
            currentWeek |-> IF GetDay(d) = 6 THEN <<>> ELSE pushed,
            weeks |-> IF GetDay(d) = 6 /\ SomeDate(pushed)
                      THEN Append(weeksRun.weeks, pushed)
                      ELSE weeksRun.weeks]
  /\ UNCHANGED <<fs, now, year, cachedData, result, cli, previous, calls, fetches>>
  /\ UNCHANGED <<clip, linux, install>>

\* Lines 52-57, reached when the condition fails or by the break.
WeeksReturn ==
  /\ \/ weeksRun.pc = "loop" /\ ~LoopCondition
     \/ weeksRun.pc = "after loop"
  /\ weeksRun' = [weeksRun EXCEPT
                    !.pc = "returned",
                    !.weeks = IF SomeDate(weeksRun.currentWeek)
                              THEN Append(weeksRun.weeks, weeksRun.currentWeek)
                              ELSE weeksRun.weeks]
  /\ UNCHANGED <<fs, now, year, cachedData, result, cli, previous, calls, fetches>>
  /\ UNCHANGED <<clip, linux, install>>

\* The years generateWeeksForYear is called with: what the command line
\* lets through (part_001 passes any parsed number on), years whose 1st of
\* January is a Sunday (2023), a Saturday (2022) and a weekday, a leap year.
WeekYears == {NaN, 0, 99, 2022, 2023, 2024, 2025, 2026}

\* The clocks: the first hour of a year, a Saturday, a Sunday, the last two
\* days of a year and the start of the next.
WeekClocks ==
  {At(2025, 1, 1, 0), At(2025, 6, 14, 10), At(2025, 6, 15, 10),
   At(2025, 12, 30, 10), YearEnd, NewYear}

InitWeeks ==
  /\ EngineIdle
  /\ now \in WeekClocks
  /\ year \in WeekYears
  /\ weeksRun = [pc |-> "called"]
  /\ clip = NoClip
  /\ linux = NoLinux
  /\ install = NoInstall

NextWeeks ==
  \/ WeeksStart
  \/ WeeksPass
  \/ WeeksReturn

\* The function is synchronous: it runs on until it returns.
SpecWeeks == InitWeeks /\ [][NextWeeks]_vars /\ WF_vars(NextWeeks)

-----------------------------------------------------------------------------

(* copyImageToClipboard of the clipboard module (src/src/agents/suggestions.ts) *)

\* const providers = [macOSProvider, linuxProvider, windowsProvider]
Providers == <<"macOS", "Linux", "Windows">>

\* getProvider(): the first provider whose isAvailable() holds, or null.
GetProvider(available) ==
  IF \E i \in 1..Len(Providers) : Providers[i] \in available
  THEN Providers[CHOOSE i \in 1..Len(Providers) :
                   /\ Providers[i] \in available
                   /\ \A j \in 1..(i - 1) : Providers[j] \notin available]
  ELSE "none"

\* join(tmpdir(), filename), where main passes `oc-wrapped-${requestedYear}.png`.
TempPath == <<"oc-wrapped", year>>

\* A variant without the finally: a throw of the write or of the copy leaves
\* at once.
UnlinkUnlessThrown(outcome) == IF outcome = "thrown" THEN "thrown" ELSE "finally"

\* Where control goes when the try block is left with the given outcome: the
\* finally block runs on a return and on a throw alike.
AfterTry(outcome) == "finally"

\* const provider = await getProvider(); without one the call returns the
\* unsupported-platform failure and touches no file.
ClipGetProvider ==
  /\ clip.pc = "called"
  /\ LET provider == GetProvider(clip.available)
     IN  clip' = IF provider = "none"
                 THEN [clip EXCEPT !.pc = "returned", !.result = "failure"]
                 ELSE [clip EXCEPT !.pc = "write", !.provider = provider]
  /\ UNCHANGED <<fs, now, year, cachedData, result, cli, previous, calls, fetches>>
  /\ UNCHANGED <<weeksRun, linux, install>>

\* await Bun.write(tempPath, pngBuffer): the file is written, or the write
\* throws, having created the file or not.
ClipWrite ==
  /\ clip.pc = "write"
  /\ \E written \in BOOLEAN, created \in BOOLEAN :
       /\ written => created
       /\ clip' = [clip EXCEPT
                     !.pc = IF written THEN "copy" ELSE AfterTry("thrown"),
                     !.written = written,
                     !.pending = IF written THEN "" ELSE "thrown",
                     !.tmp = IF created THEN @ \cup {TempPath} ELSE @]
  /\ UNCHANGED <<fs, now, year, cachedData, result, cli, previous, calls, fetches>>
  /\ UNCHANGED <<weeksRun, linux, install>>

\* return await provider.copyImage(tempPath): a result of success, a result
\* of failure, or a throw.
ClipCopy ==
  /\ clip.pc = "copy"
  /\ \E outcome \in {"success", "failure", "thrown"} :
       clip' = [clip EXCEPT !.pc = AfterTry(outcome), !.copy = outcome,
                            !.pending = outcome]
  /\ UNCHANGED <<fs, now, year, cachedData, result, cli, previous, calls, fetches>>
  /\ UNCHANGED <<weeksRun, linux, install>>

\* finally { try { await unlink(tempPath) } catch {} }: the file is removed,
\* or unlink throws (always so when there is no such file) and the catch
\* swallows it; then the pending return or throw completes.
ClipUnlink ==
  /\ clip.pc = "finally"
  /\ \E removed \in BOOLEAN :
       /\ removed => TempPath \in clip.tmp
       /\ clip' = [clip EXCEPT
                     !.pc = IF clip.pending = "thrown" THEN "thrown" ELSE "returned",
                     !.result = clip.pending,
                     !.unlink = IF removed THEN "removed" ELSE "failed",
                     !.tmp = IF removed THEN @ \ {TempPath} ELSE @]
  /\ UNCHANGED <<fs, now, year, cachedData, result, cli, previous, calls, fetches>>
  /\ UNCHANGED <<weeksRun, linux, install>>

\* A call by a run for 2024 or 2025, on a machine where any of the providers
\* may be available, with a temporary directory that may hold a file of
\* either name already.
InitClipboard ==
  /\ EngineIdle
  /\ now = YearEnd
  /\ year \in {2024, 2025}
  /\ weeksRun = NoWeeksRun
  /\ \E available \in SUBSET {"macOS", "Linux", "Windows"},
        tmp \in SUBSET {<<"oc-wrapped", 2024>>, <<"oc-wrapped", 2025>>} :
       clip = [pc |-> "called", available |-> available, provider |-> "none",
               tmp |-> tmp, written |-> FALSE, copy |-> "", pending |-> "",
               unlink |-> "", result |-> ""]
  /\ linux = NoLinux
  /\ install = NoInstall

NextClipboard ==
  \/ ClipGetProvider
  \/ ClipWrite
  \/ ClipCopy
  \/ ClipUnlink

SpecClipboard == InitClipboard /\ [][NextClipboard]_vars

-----------------------------------------------------------------------------

(* copyImage of the Linux clipboard provider (src/src/clipboard/linux.ts) *)

\* A variant that tries the X11 tools before the Wayland tool.
X11First == <<"xclip", "xsel", "wl-copy">>

\* The cmd of each entry of LINUX_TOOLS: Wayland first, then the X11 fallbacks.
LINUX_TOOLS == <<"wl-copy", "xclip", "xsel">>

\* tool.name, as it is listed in the 'Tried:' message.
ToolName(cmd) ==
  IF cmd = "wl-copy" THEN "wl-copy (Wayland)"
  ELSE IF cmd = "xclip" THEN "xclip (X11)"
  ELSE "xsel (X11)"

\* cmdExists(cmd): Bun.which finds the command (the answer is cached).
CmdExists(cmd) == cmd \in linux.installed

\* The head of the for loop of copyImage: a tool that is not installed is
\* skipped; an installed one is noted in tried and spawned by tryTool, which
\* arms the timer and awaits proc.exited; after the last tool the call
\* returns one of the two failures.
LinuxLoop ==
  /\ linux.pc = "loop"
  /\ linux' =
       IF linux.i > Len(LINUX_TOOLS)
       THEN [linux EXCEPT
               !.pc = "returned",
               !.success = FALSE,
               !.error = IF Len(linux.tried) = 0 THEN "No clipboard tool found"
                         ELSE "Clipboard copy failed. Tried"]
       ELSE IF ~CmdExists(LINUX_TOOLS[linux.i])
            THEN [linux EXCEPT !.i = @ + 1]
       ELSE [linux EXCEPT
               !.pc = "awaiting",
               !.tried = Append(@, ToolName(LINUX_TOOLS[linux.i])),
               !.spawned = Append(@, LINUX_TOOLS[linux.i]),
               !.proc = "running"]
  /\ UNCHANGED <<fs, now, year, cachedData, result, cli, previous, calls, fetches>>
  /\ UNCHANGED <<weeksRun, clip, install>>

\* The tool's process exits by itself within DEFAULT_TIMEOUT_MS.
ToolExits ==
  /\ linux.pc = "awaiting" /\ linux.proc = "running"
  /\ linux.behaviour[LINUX_TOOLS[linux.i]] # "hangs"
  /\ linux' = [linux EXCEPT !.proc = linux.behaviour[LINUX_TOOLS[linux.i]]]
  /\ UNCHANGED <<fs, now, year, cachedData, result, cli, previous, calls, fetches>>
  /\ UNCHANGED <<weeksRun, clip, install>>

\* setTimeout(() => proc.kill(), DEFAULT_TIMEOUT_MS) fires on a process that
\* is still running: the process ends by the signal.
TimeoutKills ==
  /\ linux.pc = "awaiting" /\ linux.proc = "running"
  /\ linux.behaviour[LINUX_TOOLS[linux.i]] = "hangs"
  /\ linux' = [linux EXCEPT !.proc = "killed"]
  /\ UNCHANGED <<fs, now, year, cachedData, result, cli, previous, calls, fetches>>
  /\ UNCHANGED <<weeksRun, clip, install>>

\* await proc.exited resolves: exit code 0 makes tryTool and copyImage return
\* success; any other end of the process is a failure of this tool and the
\* loop goes on to the next.
ToolSettled ==
  /\ linux.pc = "awaiting" /\ linux.proc # "running"
  /\ linux' = IF linux.proc = "exits 0"
              THEN [linux EXCEPT !.pc = "returned", !.success = TRUE, !.proc = "none"]
              ELSE [linux EXCEPT !.pc = "loop", !.i = @ + 1, !.proc = "none"]
  /\ UNCHANGED <<fs, now, year, cachedData, result, cli, previous, calls, fetches>>
  /\ UNCHANGED <<weeksRun, clip, install>>

\* A call on a machine with any of the three tools installed, each of which
\* exits with 0, exits with another code, or does not exit within the timeout.
InitLinux ==
  /\ EngineIdle
  /\ now = YearEnd
  /\ year = 2025
  /\ weeksRun = NoWeeksRun
  /\ clip = NoClip
  /\ \E installed \in SUBSET {"wl-copy", "xclip", "xsel"},
        behaviour \in [{"wl-copy", "xclip", "xsel"} -> {"exits 0", "exits 1", "hangs"}] :
       linux = [pc |-> "loop", installed |-> installed, behaviour |-> behaviour,
                i |-> 1, tried |-> <<>>, spawned |-> <<>>, proc |-> "none",
                success |-> FALSE, error |-> ""]
  /\ install = NoInstall

NextLinux ==
  \/ LinuxLoop
  \/ ToolExits
  \/ TimeoutKills
  \/ ToolSettled

\* The awaits resolve and the timer fires when its time has come.
SpecLinux == InitLinux /\ [][NextLinux]_vars /\ WF_vars(NextLinux)

-----------------------------------------------------------------------------

(* The postinstall script (src/unnamed/part_000) *)

\* The null getPlatformInfo returns for a platform or an architecture
\* without packages.
NoInfo == [platform |-> "none", arch |-> "none"]

\* getPlatformInfo(): the platform and arch names of the packages, or null.
GetPlatformInfo ==
  LET platform == IF install.platform = "darwin" THEN "darwin"
                  ELSE IF install.platform = "linux" THEN "linux"
                  ELSE IF install.platform = "win32" THEN "windows"
                  ELSE "none"
      arch == IF install.arch \in {"x64", "arm64"} THEN install.arch ELSE "none"
  IN  IF platform = "none" \/ arch = "none" THEN NoInfo
      ELSE [platform |-> platform, arch |-> arch]

\* buildPackageName(platform, arch, {baseline, musl}): the name, here the
\* record of its parts.
BuildPackageName(platform, arch, baseline, musl) ==
  [platform |-> platform, arch |-> arch, baseline |-> baseline, musl |-> musl]

\* A variant that puts the baseline build before the optimized one.
BaselineFirst(info) ==
  LET hasMusl == info.platform = "linux" /\ install.musl
      hasAvx2 == IF info.arch = "x64" THEN install.avx2 ELSE TRUE
      name(baseline) == BuildPackageName(info.platform, info.arch, baseline, hasMusl)
  IN  IF info.arch = "x64"
      THEN IF hasAvx2 THEN <<name(TRUE), name(FALSE)>> ELSE <<name(TRUE)>>
      ELSE <<name(FALSE)>>

\* getCandidatePackageNames().candidates for the platform info: both
\* branches (musl or not) add the same builds, with their musl flag.
Candidates(info) ==
  LET hasMusl == info.platform = "linux" /\ install.musl
      hasAvx2 == IF info.arch = "x64" THEN install.avx2 ELSE TRUE
      name(baseline) == BuildPackageName(info.platform, info.arch, baseline, hasMusl)
  IN  IF info.arch = "x64"
      THEN IF hasAvx2 THEN <<name(FALSE), name(TRUE)>> ELSE <<name(TRUE)>>
      ELSE <<name(FALSE)>>

\* findBinary(packageName): the binary of the package is on disk.
FindBinary(p) == install.packages[p.baseline] # "missing"

\* testBinary(binaryPath).ok: `--version` ran without error, signal or
\* non-zero status.
TestBinary(p) == install.packages[p.baseline] = "working"

\* process.exit(0) after the messages of the outcome; the return after a
\* link ends the script with code 0 as well.
InstallExit(outcome) ==
  [install EXCEPT !.pc = "exited", !.exitCode = 0, !.outcome = outcome]

\* const selection = getCandidatePackageNames() and the unsupported-platform
\* exit.
InstallSelect ==
  /\ install.pc = "start"
  /\ install' = IF GetPlatformInfo = NoInfo THEN InstallExit("unsupported platform")
                ELSE [install EXCEPT !.pc = "loop",
                                     !.candidates = Candidates(GetPlatformInfo)]
  /\ UNCHANGED <<fs, now, year, cachedData, result, cli, previous, calls, fetches>>
  /\ UNCHANGED <<weeksRun, clip, linux>>

\* One pass of the loop over the candidates, or the exit after the last: a
\* package without a binary, or whose binary fails the check, is passed over;
\* the first that passes is linked and main returns; a throw of linkBinary
\* is caught by the catch of main, which exits 0.
InstallTry ==
  /\ install.pc = "loop"
  /\ install' =
       IF install.i > Len(install.candidates)
       THEN InstallExit("no working binary")
       ELSE LET p == install.candidates[install.i]
            IN  IF ~FindBinary(p) THEN [install EXCEPT !.i = @ + 1]
                ELSE IF ~TestBinary(p)
                     THEN [install EXCEPT !.i = @ + 1, !.lastFailure = p,
                                          !.tested = Append(@, p)]
                ELSE IF install.linkThrows
                     THEN [InstallExit("postinstall error") EXCEPT
                             !.tested = Append(@, p)]
                ELSE [InstallExit("linked") EXCEPT
                        !.tested = Append(@, p), !.linked = Append(@, p)]
  /\ UNCHANGED <<fs, now, year, cachedData, result, cli, previous, calls, fetches>>
  /\ UNCHANGED <<weeksRun, clip, linux>>

NoPackage == [platform |-> "none", arch |-> "none", baseline |-> FALSE, musl |-> FALSE]

\* A run on any platform and architecture, with or without musl and AVX2,
\* where the optimized and the baseline package of the platform are each
\* missing, broken or working, and linkBinary may throw.
InitInstall ==
  /\ EngineIdle
  /\ now = YearEnd
  /\ year = 2025
  /\ weeksRun = NoWeeksRun
  /\ clip = NoClip
  /\ linux = NoLinux
  /\ \E platform \in {"darwin", "linux", "win32", "freebsd"},
        arch \in {"x64", "arm64", "ia32"},
        musl \in BOOLEAN, avx2 \in BOOLEAN, linkThrows \in BOOLEAN,
        packages \in [BOOLEAN -> {"missing", "broken", "working"}] :
       install = [pc |-> "start", platform |-> platform, arch |-> arch,
                  musl |-> musl, avx2 |-> avx2, packages |-> packages,
                  linkThrows |-> linkThrows, candidates |-> <<>>, i |-> 1,
                  tested |-> <<>>, linked |-> <<>>, lastFailure |-> NoPackage,
                  exitCode |-> Absent, outcome |-> ""]

NextInstall ==
  \/ InstallSelect
  \/ InstallTry

SpecInstall == InitInstall /\ [][NextInstall]_vars

-----------------------------------------------------------------------------

(* What the claims speak of, read off the corpus itself *)

\* calculateStats has returned its result, stats.
Done == result.call = "calculateStats" /\ result.ok

stats == result.value

\* The places <<directory, file>> of the message files that are records.
MessagePlaces ==
  IF ~(fs.root /\ fs.message.exists) THEN {}
  ELSE {p \in UNION {{<<d, i>> : i \in 1..Len(fs.message.dirs[d].files)} :
                       d \in 1..Len(fs.message.dirs)} :
          /\ fs.message.dirs[p[1]].readable
          /\ fs.message.dirs[p[1]].files[p[2]].ext = "json"
          /\ fs.message.dirs[p[1]].files[p[2]].shape = "ok"}

MessageAt(p) == fs.message.dirs[p[1]].files[p[2]].data

\* The timestamp lies in calendar year y.
InYear(ts, y) == At(y, 1, 1, 0) <= ts /\ ts < At(y + 1, 1, 1, 0)

\* The messages of the requested year.
YearPlaces == {p \in MessagePlaces : InYear(MessageAt(p).created, year)}

\* The sum of f over the set S.
RECURSIVE SumOver(_, _)
SumOver(S, f) ==
  IF S = {} THEN 0
  ELSE LET p == CHOOSE q \in S : TRUE IN f[p] + SumOver(S \ {p}, f)

InputOf(p) ==
  IF MessageAt(p).tokens.has /\ MessageAt(p).tokens.input # Absent
  THEN MessageAt(p).tokens.input ELSE 0

OutputOf(p) ==
  IF MessageAt(p).tokens.has /\ MessageAt(p).tokens.output # Absent
  THEN MessageAt(p).tokens.output ELSE 0

\* The days (ordinals) of the requested year that have a message, and the
\* days of any year that have one.
ActiveDays == {DayOf(MessageAt(p).created) : p \in YearPlaces}

AllActiveDays == {DayOf(MessageAt(p).created) : p \in MessagePlaces}

\* n consecutive days from d on all lie in S.
RunFrom(S, d, n) == \A i \in 0..(n - 1) : d + i \in S

\* The length of the longest run of consecutive days in S.
LongestRun(S) ==
  IF S = {} THEN 0
  ELSE CHOOSE n \in 1..Cardinality(S) :
         /\ \E d \in S : RunFrom(S, d, n)
         /\ \A m \in (n + 1)..Cardinality(S) : ~\E d \in S : RunFrom(S, d, m)

\* The length of the run of consecutive days in S that ends on day e.
RunEndingOn(S, e) ==
  IF e \notin S THEN 0
  ELSE CHOOSE n \in 1..Cardinality(S) :
         RunFrom(S, e - n + 1, n) /\ (e - n) \notin S

\* The run that ends today, or yesterday when today has no activity.
RunEndingNow(S) ==
  IF DayOf(now) \in S THEN RunEndingOn(S, DayOf(now))
  ELSE RunEndingOn(S, DayOf(now) - 1)

\* The days of that run.
DaysOfRunEndingNow(S) ==
  LET e == IF DayOf(now) \in S THEN DayOf(now) ELSE DayOf(now) - 1
  IN  {e - i : i \in 0..(RunEndingNow(S) - 1)}

\* A sequence of ranking entries is sorted non-increasing by count.
SortedByCount(s) == \A i \in 1..(Len(s) - 1) : s[i].count >= s[i + 1].count

-----------------------------------------------------------------------------
(* The claims *)

\* C1: totalTokens returned by calculateStats equals totalInputTokens +
\* totalOutputTokens, each total being the sum of its token field over the
\* messages of the requested year.  The code returns the output total alone.
C1_TotalTokensIsInputPlusOutput ==
  Done =>
    /\ stats.totalInputTokens = SumOver(YearPlaces, [p \in YearPlaces |-> InputOf(p)])
    /\ stats.totalOutputTokens = SumOver(YearPlaces, [p \in YearPlaces |-> OutputOf(p)])
    /\ stats.totalTokens = stats.totalInputTokens + stats.totalOutputTokens

\* C2, as claimed: topModels and topProviders both have length at most 3 and
\* are sorted non-increasing by count.
C2_BothListsAtMostThree ==
  Done =>
    /\ Len(stats.topModels) <= 3
    /\ Len(stats.topProviders) <= 3
    /\ SortedByCount(stats.topModels)
    /\ SortedByCount(stats.topProviders)

\* C2, amended: topModels has length at most 3 and topProviders length at most
\* 10, and both are sorted non-increasing by count.
C2_ModelsAtMostThreeProvidersAtMostTen ==
  Done =>
    /\ Len(stats.topModels) <= 3
    /\ Len(stats.topProviders) <= 10
    /\ SortedByCount(stats.topModels)
    /\ SortedByCount(stats.topProviders)

\* The providers (models) of the year's assistant messages.
YearProviders ==
  {MessageAt(p).providerID : p \in {q \in YearPlaces : MessageAt(q).role = "assistant"}} \ {""}

YearModels ==
  {MessageAt(p).modelID : p \in {q \in YearPlaces : MessageAt(q).role = "assistant"}} \ {""}

\* C2's case: more than 10 providers and more than 3 models were used, both
\* lists are cut, and the most used provider was not the first encountered.
C2_Witness ==
  /\ Done
  /\ Cardinality(YearProviders) > 10
  /\ Cardinality(YearModels) > 3
  /\ Len(stats.topProviders) = 10
  /\ Len(stats.topModels) = 3
  /\ stats.topProviders[1].count = 2
  /\ stats.topProviders[1].name = "a07"
  /\ stats.topProviders[2].count = 1

\* The day-keys of a set of day ordinals.
KeysOf(days) == {CivilFromDays(d) : d \in days}

ScenarioA == {<<2025, 1, 1>>, <<2025, 1, 2>>, <<2025, 1, 3>>, <<2025, 1, 10>>}

\* C3: maxStreak is the length of the longest run of consecutive calendar days
\* that each have a message of the requested year; activity on 01-01, 01-02,
\* 01-03 and 01-10 gives maxStreak = 3 and maxStreakDays = {01-01, 01-02, 01-03}.
C3_MaxStreakIsLongestRun ==
  Done =>
    /\ stats.maxStreak = LongestRun(ActiveDays)
    /\ KeysOf(ActiveDays) = ScenarioA =>
         /\ stats.maxStreak = 3
         /\ stats.maxStreakDays = {<<2025, 1, 1>>, <<2025, 1, 2>>, <<2025, 1, 3>>}

\* C3's case: scenario A itself.
C3_Witness ==
  /\ Done
  /\ KeysOf(ActiveDays) = ScenarioA
  /\ stats.maxStreak = 3

\* C4: when the year has an active day, maxStreak >= 1, maxStreakDays has
\* exactly maxStreak day-keys, and they are one contiguous calendar run of
\* active days: every day from the first to the last of them is in the set.
C4_MaxStreakDaysIsOneRun ==
  Done /\ ActiveDays # {} =>
    /\ stats.maxStreak >= 1
    /\ Cardinality(stats.maxStreakDays) = stats.maxStreak
    /\ stats.maxStreakDays \subseteq KeysOf(ActiveDays)
    /\ \E d \in ActiveDays :
         stats.maxStreakDays = KeysOf({d + i : i \in 0..(stats.maxStreak - 1)})

\* C4's case: a run of two days across the end of February beside single
\* active days before and after it.
C4_Witness ==
  /\ Done
  /\ KeysOf(ActiveDays) = {<<2025, 1, 1>>, <<2025, 2, 28>>, <<2025, 3, 1>>, <<2025, 12, 30>>}
  /\ stats.maxStreakDays = {<<2025, 2, 28>>, <<2025, 3, 1>>}

\* C5: currentStreak is not constrained to the requested year: when the run of
\* consecutive active days that ends today (or yesterday) has days outside the
\* requested year, currentStreak counts every day of that run.  The code walks
\* the requested year's days only.
C5_CurrentStreakCrossesYears ==
  Done /\ (\E d \in DaysOfRunEndingNow(AllActiveDays) : CivilFromDays(d)[1] # year) =>
    stats.currentStreak = RunEndingNow(AllActiveDays)

\* The year's first-party messages that carry a cost.
MeteredPlaces ==
  {p \in YearPlaces : MessageAt(p).providerID = "opencode" /\ MessageAt(p).cost # Absent}

\* C6: totalCost is the sum of message.cost over exactly the messages of the
\* year whose provider is "opencode" and which carry a cost; a message of
\* another provider never changes it.
C6_TotalCostIsFirstPartyCost ==
  Done => stats.totalCost = SumOver(MeteredPlaces, [p \in MeteredPlaces |-> MessageAt(p).cost])

\* C6's case: a first-party message with cost 0.42 beside a message of another
\* provider that carries a cost too.
C6_Witness ==
  /\ Done
  /\ \E p \in YearPlaces : MessageAt(p).providerID = "opencode" /\ MessageAt(p).cost = 42
  /\ \E p \in YearPlaces : MessageAt(p).providerID = "anthropic" /\ MessageAt(p).cost = 42
  /\ stats.totalCost = 42


\* The estimate, in millionths of a currency unit, that message p adds: its
\* tokens at the rates of its model's price entry.
EstimateOf(p) ==
  LET m == MessageAt(p)
      c == GetModelPricing(m.modelID)
  IN  IF m.providerID = "opencode" \/ m.modelID = "" \/ ~m.tokens.has \/ ~c.found
      THEN 0
      ELSE OrZero(m.tokens.input) * c.input + OrZero(m.tokens.output) * c.output
           + (IF c.cacheRead = Absent THEN 0 ELSE m.tokens.cache.read * c.cacheRead)
           + (IF c.cacheWrite = Absent THEN 0 ELSE m.tokens.cache.write * c.cacheWrite)

\* C7: the stats result carries an estimated cost, the sum over the year's
\* messages of other providers that have a model id, a token breakdown and a
\* price entry of input * inputRate / 1e6 + output * outputRate / 1e6 (and the
\* cache terms); a model without a price entry adds zero.  The result of the
\* code has no such field.
C7_EstimatedCostIsPricedTokens ==
  Done =>
    /\ "estimatedCost" \in DOMAIN stats
    /\ stats.estimatedCost = SumOver(YearPlaces, [p \in YearPlaces |-> EstimateOf(p)])

\* The places of the session files that parse as JSON, and the creation times
\* of those that have one.
SessionPlaces ==
  IF ~(fs.root /\ fs.session.exists) THEN {}
  ELSE {p \in UNION {{<<d, i>> : i \in 1..Len(fs.session.dirs[d].files)} :
                       d \in 1..Len(fs.session.dirs)} :
          /\ fs.session.dirs[p[1]].readable
          /\ fs.session.dirs[p[1]].files[p[2]].ext = "json"
          /\ fs.session.dirs[p[1]].files[p[2]].shape # "unparsable"}

SessionAt(p) == fs.session.dirs[p[1]].files[p[2]]

SessionTimes == {SessionAt(p).data.created : p \in {q \in SessionPlaces : SessionAt(q).shape = "ok"}}

Earliest(S) == CHOOSE t \in S : \A u \in S : t <= u

\* C8: daysSinceFirstSession counts the days since the earliest creation time
\* of the sessions of every year, whatever the requested year; when that year
\* has no message but a session of an earlier year exists, calculateStats
\* returns totalMessages = 0 and daysSinceFirstSession > 0.
C8_DaysSinceFirstSessionOverAllYears ==
  Done =>
    /\ SessionTimes # {} =>
         stats.daysSinceFirstSession = (now - Earliest(SessionTimes)) \div 24
    /\ YearPlaces = {} /\ (\E t \in SessionTimes : t < At(year, 1, 1, 0)) =>
         stats.totalMessages = 0 /\ stats.daysSinceFirstSession > 0

Collectors == {"collectSessions", "collectMessages", "collectProjects"}

KindOf(call) ==
  IF call = "collectSessions" THEN "session"
  ELSE IF call = "collectMessages" THEN "message"
  ELSE "project"

CorpusReadable == fs.root /\ fs.session.exists /\ fs.message.exists

\* C10: a record file that does not parse as JSON or lacks the record's shape
\* (no time.created) is skipped by every collector call, with or without a
\* year: it is in no returned list, and calculateStats never fails because of
\* it.  The calls without a year return such records and calculateStats then
\* fails on them.
C10_MalformedRecordsAreSkipped ==
  /\ result.call \in Collectors \cup {"collectAllSessions"} /\ result.ok =>
       \A i \in 1..Len(result.value) : result.value[i].shape = "ok"
  /\ result.call = "calculateStats" /\ CorpusReadable => result.ok

\* The local weekday (0 = Sunday .. 6 = Saturday) of a day ordinal: day 0,
\* 1970-01-01, was a Thursday.
WeekdayOf(d) == (d + 4) % 7

\* The year's messages created on weekday w.
OnWeekday(w) == {p \in YearPlaces : WeekdayOf(DayOf(MessageAt(p).created)) = w}

\* C16: the stats result carries a 7-slot weekday histogram whose slot d is
\* the number of the year's messages created on local weekday d, and the most
\* active weekday it reports is the slot with the highest count, the lowest
\* index winning a tie.  The result of the code has no such field.
C16_WeekdayHistogram ==
  Done =>
    /\ "weekdayActivity" \in DOMAIN stats
    /\ \A w \in 0..6 : stats.weekdayActivity.counts[w + 1] = Cardinality(OnWeekday(w))
    /\ LET best == stats.weekdayActivity.mostActiveDay
       IN  /\ best \in 0..6
           /\ \A w \in 0..6 : Cardinality(OnWeekday(w)) <= Cardinality(OnWeekday(best))
           /\ \A w \in 0..(best - 1) : Cardinality(OnWeekday(w)) < Cardinality(OnWeekday(best))

\* The first day of the earliest run of n consecutive days in S.
EarliestRunStart(S, n) ==
  CHOOSE d \in S : RunFrom(S, d, n) /\ \A e \in S : RunFrom(S, e, n) => d <= e

\* The first days of the runs of S of the longest length (runs that cannot be
\* extended to the left).
LongestRunStarts(S) ==
  {d \in S : RunFrom(S, d, LongestRun(S))}

\* C18: when two or more runs of consecutive active days of the year share the
\* maximum length, maxStreakDays is the set of days of the earliest such run;
\* a later run of equal length never replaces it.
C18_EarliestLongestRunWins ==
  Done /\ ActiveDays # {} =>
    stats.maxStreakDays =
      KeysOf({EarliestRunStart(ActiveDays, LongestRun(ActiveDays)) + i :
                i \in 0..(LongestRun(ActiveDays) - 1)})

\* C18's case (scenario B): two runs of two days, the later across the end of
\* February, and the earlier one is reported.
C18_Witness ==
  /\ Done
  /\ KeysOf(ActiveDays) = {<<2025, 1, 1>>, <<2025, 1, 2>>, <<2025, 2, 28>>, <<2025, 3, 1>>}
  /\ Cardinality(LongestRunStarts(ActiveDays)) = 2
  /\ stats.maxStreakDays = {<<2025, 1, 1>>, <<2025, 1, 2>>}

\* C19: currentStreak is 0 when neither today nor yesterday has activity;
\* otherwise it is the number of days of the unbroken run of active days that
\* ends today (if today has activity) or yesterday (if today has none), each
\* calendar day counted once; a run of 4 days that ends yesterday, with no
\* activity today, gives 4.  The code knows the requested year's days only.
C19_CurrentStreakIsRunEndingNow ==
  Done =>
    /\ (DayOf(now) \notin AllActiveDays /\ (DayOf(now) - 1) \notin AllActiveDays)
         => stats.currentStreak = 0
    /\ stats.currentStreak = RunEndingNow(AllActiveDays)

\* The year's assistant messages.
AssistantPlaces == {p \in YearPlaces : MessageAt(p).role = "assistant"}

\* Place p is enumerated before place q.
PlaceBefore(p, q) == p[1] < q[1] \/ (p[1] = q[1] /\ p[2] < q[2])

\* The assistant messages of model (provider) id, and the first of them in
\* the message stream.
OfModel(id) == {p \in AssistantPlaces : MessageAt(p).modelID = id}

OfProvider(id) == {p \in AssistantPlaces : MessageAt(p).providerID = id}

FirstOf(S) == CHOOSE p \in S : \A q \in S \ {p} : PlaceBefore(p, q)

\* The place in the ranking of the entry counted by A among those counted by
\* the sets of All: behind every entry with more messages and every entry
\* with as many that was encountered earlier.
RankAmong(A, All) ==
  1 + Cardinality({B \in All :
        \/ Cardinality(B) > Cardinality(A)
        \/ Cardinality(B) = Cardinality(A) /\ PlaceBefore(FirstOf(B), FirstOf(A))})

ModelSets == {OfModel(id) : id \in YearModels}

ProviderSets == {OfProvider(id) : id \in YearProviders}

Smaller(a, b) == IF a < b THEN a ELSE b

\* C20: the model and provider rankings count assistant messages only (a user
\* message changes no count, whatever ids it carries), are ordered by
\* descending count, and among entries of equal count keep the order in which
\* the model or provider was first encountered in the message stream.
C20_RankingsCountAssistantsStably ==
  Done =>
    /\ Len(stats.topModels) = Smaller(Cardinality(YearModels), ModelLimit)
    /\ Len(stats.topProviders) = Smaller(Cardinality(YearProviders), ProviderLimit)
    /\ \A id \in YearModels :
         LET r == RankAmong(OfModel(id), ModelSets)
         IN  r <= ModelLimit =>
               /\ stats.topModels[r].name = FormatModelName(id)
               /\ stats.topModels[r].count = Cardinality(OfModel(id))
    /\ \A id \in YearProviders :
         LET r == RankAmong(OfProvider(id), ProviderSets)
         IN  r <= ProviderLimit =>
               /\ stats.topProviders[r].name = FormatProviderName(id)
               /\ stats.topProviders[r].count = Cardinality(OfProvider(id))

\* C20's case: a user message that names a model and a provider of its own
\* was read first, and the two providers of one assistant message each are
\* ranked in the order they were encountered.
C20_Witness ==
  /\ Done
  /\ \E p \in YearPlaces :
       /\ MessageAt(p).role = "user" /\ MessageAt(p).providerID = "xai"
       /\ \A q \in YearPlaces \ {p} : PlaceBefore(p, q)
  /\ Len(stats.topProviders) = 2
  /\ stats.topProviders[1].name = "moonshot" /\ stats.topProviders[1].count = 1
  /\ stats.topProviders[2].name = "OpenAI" /\ stats.topProviders[2].count = 1
  /\ stats.topModels[1].name = "Kimi K2"
  /\ stats.topModels[2].name = "GPT-5"

\* The run is over.
Exited == cli.pc = "exited"

\* C11: the process exits with code 0 whenever the run completes or ends
\* gracefully for lack of data (no corpus root, or no activity for the
\* requested year), and with another code only on an unexpected internal
\* failure (calculateStats or generateImage throwing, or an uncaught error).
\* A year the command line rejects is a usage error and is left aside.  main
\* of index.ts exits 1 without a corpus and without activity.
C11_ExitCodeZeroUnlessInternalFailure ==
  Exited /\ cli.outcome # "invalid year" =>
    /\ cli.outcome \in {"done", "data not found", "no activity"} => cli.exitCode = 0
    /\ cli.exitCode # 0 => cli.outcome \in {"stats failed", "image failed", "unexpected error"}

\* The sessions of the requested year: the places of the session files that
\* are records created in it.
YearSessions ==
  {p \in SessionPlaces :
     SessionAt(p).shape = "ok" /\ year # NaN /\ InYear(SessionAt(p).data.created, year)}

\* The run got as far as asking for the corpus.
AskedForData == Exited /\ cli.outcome \notin
  {"help", "version", "invalid year", "not available"} /\ cli.argv = "run"

\* C12: when the corpus root exists but no session and no message is of the
\* requested year, the run ends with 'nothing to show' (no summary, no
\* image), which differs from the outcome for a missing corpus; the latter is
\* reported only when the root cannot be read.  A missing session/ directory
\* or a record without time makes calculateStats throw instead, and a year of
\* 0 or NaN makes it count the records of every year.
C12_NothingToShowIsNotCorpusMissing ==
  AskedForData =>
    /\ (fs.root /\ YearSessions = {} /\ (year = NaN \/ YearPlaces = {})) =>
         cli.outcome = "no activity" /\ ~cli.summary /\ ~cli.image
    /\ cli.outcome = "data not found" => ~fs.root

\* C17: for every year main can pass to calculateStats, totalSessions and
\* totalMessages count exactly the session and message records created in
\* that calendar year; a record of another year is never counted.  main of
\* part_001 passes 0 and NaN, for which the collectors do not filter.
C17_TotalsCountTheYearOnly ==
  Done =>
    /\ stats.totalSessions = Cardinality(YearSessions)
    /\ stats.totalMessages = (IF year = NaN THEN 0 ELSE Cardinality(YearPlaces))

\* Two runs have returned: the earlier one, first, and the later one, stats.
DoneTwice ==
  /\ Done
  /\ previous.result.call = "calculateStats" /\ previous.result.ok

first == previous.result.value

\* The entries of a Map.
EntriesOf(m) == {m[i] : i \in 1..Len(m)}

\* A result without the fields that are relative to the time of the run, its
\* Map taken as the mapping it is.
Timeless(s) ==
  [s EXCEPT !.daysSinceFirstSession = 0, !.currentStreak = 0,
            !.dailyActivity = EntriesOf(@)]

\* The counts and percentages of a ranking, in its order.
CountsOf(r) == [i \in 1..Len(r) |-> <<r[i].count, r[i].percentage>>]

Resolved == {i \in 1..Len(calls) : calls[i].pc = "resolved"}

\* C14: the price table is fetched at most once in the life of the process:
\* for any number of fetchModelsData calls in any interleaving, calls started
\* before an earlier call's fetch has completed included, exactly one network
\* fetch is issued and every caller is given the same table.  A call that
\* starts while an earlier one still awaits finds the cache empty and fetches
\* again.
C14_OneFetchPerProcess ==
  /\ fetches <= 1
  /\ Len(calls) >= 1 => fetches = 1
  /\ \A i, j \in Resolved : calls[i].value = calls[j].value

\* The ids getModelPricing is asked about.
ModelIds == {"claude", "gpt-5", "kimi-k2", "glm"}

\* Call i resolves in this step after its fetch or its body failed.
FailsNow(i) ==
  /\ calls[i].pc # "resolved"
  /\ calls'[i].pc = "resolved"
  /\ calls'[i].cause # ""

\* C15: when the fetch times out, fails, answers with a status that is not OK
\* or with a body that does not parse, fetchModelsData still resolves, with
\* an empty table, and never stays pending; the empty table is then the
\* cache, getModelPricing gives no pricing for any model, and no call that
\* starts once a table is cached fetches again.
C15_FailedFetchResolvesToCachedEmptyTable ==
  /\ [](\A i \in Resolved : calls[i].cause # "" => calls[i].value = EmptyData)
  /\ [][\A i \in 1..Len(calls) :
          FailsNow(i) =>
            /\ cachedData' = EmptyData
            /\ \A m \in ModelIds : ~(GetModelPricing(m).found)']_vars
  /\ [](cachedData = EmptyData => \A m \in ModelIds : ~GetModelPricing(m).found)
  /\ [][~cachedData.isNull => fetches' = fetches]_vars
  /\ \A i \in 1..MaxCalls :
       (Len(calls) >= i) ~> (Len(calls) >= i /\ calls[i].pc = "resolved")

\* C15's case: the first call's fetch timed out and the empty table was
\* cached; a call that started afterwards got it without a fetch.
C15_Witness ==
  /\ Len(calls) = 2
  /\ calls[1].pc = "resolved" /\ calls[1].cause = "timeout"
  /\ calls[2].pc = "resolved" /\ ~calls[2].fetched /\ calls[2].value = EmptyData
  /\ cachedData = EmptyData
  /\ fetches = 1

\* The year's messages created on the day with key k.
OnDay(k) == {p \in YearPlaces : CivilFromDays(DayOf(MessageAt(p).created)) = k}

\* The day-keys of the year's messages, and those of the highest count.
YearKeys == KeysOf(ActiveDays)

BusiestKeys ==
  {k \in YearKeys : \A j \in YearKeys : Cardinality(OnDay(j)) <= Cardinality(OnDay(k))}

\* C21: mostActiveDay is a day-key of the highest message count of the year,
\* the earliest date among the days that share that count, in whatever order
\* the messages are supplied; it is null only when the year has no message.
\* The code reports the day of highest count that it encountered first.
C21_MostActiveDayIsEarliestBusiest ==
  Done =>
    /\ stats.mostActiveDay.isNull <=> YearPlaces = {}
    /\ YearPlaces # {} =>
         /\ stats.mostActiveDay.date \in BusiestKeys
         /\ stats.mostActiveDay.count = Cardinality(OnDay(stats.mostActiveDay.date))
         /\ \A k \in BusiestKeys : ~KeyLess(k, stats.mostActiveDay.date)

\* C22: for every day-key k, dailyActivity[k] is the number of the requested
\* year's messages whose creation date formats to k in local time; so every
\* key lies in the requested year, every stored count is at least 1, and the
\* counts sum to totalMessages.
C22_DailyActivityCountsTheYearsMessages ==
  Done =>
    /\ {stats.dailyActivity[i].id : i \in 1..Len(stats.dailyActivity)} = YearKeys
    /\ \A i, j \in 1..Len(stats.dailyActivity) :
         stats.dailyActivity[i].id = stats.dailyActivity[j].id => i = j
    /\ \A i \in 1..Len(stats.dailyActivity) :
         LET e == stats.dailyActivity[i]
         IN  /\ e.count = Cardinality(OnDay(e.id))
             /\ e.count >= 1
             /\ e.id[1] = year
             /\ e.id[2] \in 1..12 /\ e.id[3] \in 1..31
    /\ SumCounts(stats.dailyActivity) = stats.totalMessages

\* C22's case: two messages on one day of the year and one on another, beside
\* a message of another year that is in no entry.
C22_Witness ==
  /\ Done
  /\ \E p \in MessagePlaces : ~InYear(MessageAt(p).created, year)
  /\ \E i \in 1..Len(stats.dailyActivity) : stats.dailyActivity[i].count = 2
  /\ \E i \in 1..Len(stats.dailyActivity) : stats.dailyActivity[i].count = 1
  /\ stats.totalMessages = 3


\* C23: saving the image and copying it to the clipboard are best-effort: a
\* failure of either step never ends the run as an error, never changes its
\* exit code, and never keeps the other step from being offered.
C23_SaveAndCopyAreBestEffort ==
  Exited /\ (cli.saved = "failed" \/ cli.copied \in {"failed", "thrown"}) =>
    /\ cli.exitCode = 0
    /\ cli.outcome \in {"done", "cancelled"}
    /\ cli.outcome = "done" => cli.saved # "" /\ cli.copied # ""

\* C24: main takes its steps in order: calculateStats runs only after the
\* availability check and the data check have passed, the image is generated
\* only after calculateStats returned with a session, the save and copy
\* prompts come only after the image, and --help and --version exit 0 before
\* the corpus is touched.
C24_StepsOfMainInOrder ==
  /\ result.call = "calculateStats" =>
       IsWrappedAvailable(year) /\ cli.checked /\ fs.root
  /\ cli.image =>
       result.call = "calculateStats" /\ result.ok /\ result.value.totalSessions > 0
  /\ (cli.saved # "" \/ cli.copied # "") => cli.image
  /\ cli.argv \in {"help", "version"} =>
       /\ ~cli.checked /\ result = NoResult
       /\ cli.pc \in {"start", "exited"}
       /\ Exited => cli.exitCode = 0 /\ cli.outcome = cli.argv

\* A run that went through every step: the image saved and copied.
C24_Witness ==
  /\ Exited /\ cli.outcome = "done" /\ cli.image
  /\ cli.saved = "saved" /\ cli.copied = "copied"
  /\ result.value.totalSessions > 0

\* Wrapped for the year y is open: y is over, or y is the current year and
\* its 20th of December has begun.
Open(y) ==
  \/ y < GetFullYear(now)
  \/ y = GetFullYear(now) /\ now >= At(y, 12, 20, 0)

\* C25: isWrappedAvailable opens every year before the current one, no year
\* after it, and the current year from the 20th of December on; a run for a
\* year that is not open exits without reading the corpus.
C25_ClosedYearsAreNotRead ==
  /\ year # NaN => (IsWrappedAvailable(year) <=> Open(year))
  /\ cli.argv = "run" /\ ~IsWrappedAvailable(year) =>
       /\ ~cli.checked /\ result = NoResult
       /\ cli.pc \in {"start", "exited"}
       /\ Exited => cli.outcome \in {"not available", "invalid year"}

\* A run for the current year in the last hour of the 19th of December has
\* exited without a look at the corpus.
C25_Witness ==
  /\ now = At(2025, 12, 19, 23) /\ year = 2025
  /\ cli.argv = "run" /\ ~IsWrappedAvailable(year)
  /\ Exited /\ cli.outcome = "not available" /\ ~cli.checked


\* generateWeeksForYear has returned.
WeeksReturned == weeksRun.pc = "returned"

\* C26: in every week generateWeeksForYear returns, entry i (0..6) is the
\* date whose weekday is i (Sunday = 0) or an empty placeholder, the first
\* week of a year whose 1st of January is not a Sunday included.
C26_EntryIndexIsWeekday ==
  WeeksReturned =>
    \A w \in 1..Len(weeksRun.weeks) :
      \A i \in 1..Len(weeksRun.weeks[w]) :
        LET e == weeksRun.weeks[w][i]
        IN  e = Pad \/ WeekdayOf(DaysFromCivil(e)) = i - 1

RECURSIVE Flatten(_)
Flatten(ws) == IF ws = <<>> THEN <<>> ELSE Head(ws) \o Flatten(Tail(ws))

IsDate(e) == e # Pad

\* The day ordinals of the 1st of January of the year and of its end date:
\* today in the current year, else the 31st of December.
FirstDay == DaysFromCivil(<<year, 1, 1>>)

LastDay ==
  IF year = GetFullYear(now) THEN DayOf(now) ELSE DaysFromCivil(<<year, 12, 31>>)

DaysOfYear == [i \in 1..(LastDay - FirstDay + 1) |-> CivilFromDays(FirstDay + i - 1)]

WeeksAreTheDaysOfTheYear ==
  /\ \A w \in 1..Len(weeksRun.weeks) : Len(weeksRun.weeks[w]) <= 7
  /\ Len(weeksRun.currentWeek) <= 7
  /\ WeeksReturned /\ year # NaN =>
       SelectSeq(Flatten(weeksRun.weeks), IsDate) = DaysOfYear

\* C27: generateWeeksForYear terminates for every year, no week has more
\* than 7 entries, and the non-empty entries, read in order, are exactly the
\* days from the 1st of January through the end date (the 31st of December,
\* or today for the current year), each once and ascending.
C27_WeeksAreTheDaysOfTheYear ==
  /\ [](weeksRun.pc \in {"loop", "after loop", "returned"} => WeeksAreTheDaysOfTheYear)
  /\ <>WeeksReturned


\* copyImageToClipboard has completed, by a return or by a throw.
ClipCompleted == clip.pc \in {"returned", "thrown"}

\* C28: whenever copyImageToClipboard has found a provider and written the
\* temporary file, the removal of that file has run before the call
\* completes, whether the provider's copy succeeded, returned a failure or
\* threw: the file is gone, unless the removal itself failed, which is
\* ignored; in both cases the call completes with the result of the copy.
C28_TempFileRemovedWhateverTheCopyDid ==
  ClipCompleted /\ clip.provider # "none" /\ clip.written =>
    /\ clip.unlink \in {"removed", "failed"}
    /\ clip.unlink = "removed" => TempPath \notin clip.tmp
    /\ clip.result = clip.copy
    /\ clip.pc = (IF clip.copy = "thrown" THEN "thrown" ELSE "returned")

\* The copy threw and the file was removed all the same; the throw is what
\* the caller gets.
C28_Witness ==
  /\ ClipCompleted /\ clip.written /\ clip.copy = "thrown"
  /\ clip.unlink = "removed" /\ TempPath \notin clip.tmp
  /\ clip.pc = "thrown"


\* The installed tools in the order wl-copy, xclip, xsel.
InstalledInOrder ==
  SelectSeq(<<"wl-copy", "xclip", "xsel">>, LAMBDA c : c \in linux.installed)

\* The place in that order of the first tool that exits with 0, or 0.
FirstWorking ==
  IF \E i \in 1..Len(InstalledInOrder) : linux.behaviour[InstalledInOrder[i]] = "exits 0"
  THEN CHOOSE i \in 1..Len(InstalledInOrder) :
         /\ linux.behaviour[InstalledInOrder[i]] = "exits 0"
         /\ \A j \in 1..(i - 1) : linux.behaviour[InstalledInOrder[j]] # "exits 0"
  ELSE 0

LinuxReturned == linux.pc = "returned"

\* What copyImage has run and answered when it returns.
LinuxTriesInOrder ==
  /\ \E n \in 0..Len(InstalledInOrder) : linux.spawned = SubSeq(InstalledInOrder, 1, n)
  /\ LinuxReturned =>
       /\ linux.success <=> FirstWorking # 0
       /\ linux.success => linux.spawned = SubSeq(InstalledInOrder, 1, FirstWorking)
       /\ linux.error = "No clipboard tool found" => linux.spawned = <<>>
       /\ linux.error = "Clipboard copy failed. Tried" =>
            /\ linux.spawned = InstalledInOrder
            /\ \A i \in 1..Len(linux.spawned) : linux.behaviour[linux.spawned[i]] # "exits 0"
            /\ linux.tried = [i \in 1..Len(InstalledInOrder) |-> ToolName(InstalledInOrder[i])]
       /\ ~linux.success => linux.error # ""

InstallExited == install.pc = "exited"

\* The package is there and its binary answers --version.
Works(p) == install.packages[p.baseline] = "working"

\* C30: the postinstall script links at most one binary, that of the first
\* package in candidate order (the optimized build before the baseline
\* fallback, a baseline build only on x64) whose binary is found and passes
\* the --version check, a missing or failing candidate being passed over; and
\* whatever the outcome (unsupported platform, no working binary, thrown
\* error) it exits with code 0.
C30_PostinstallLinksFirstWorkingBinary ==
  install.pc # "none" =>
    /\ Len(install.linked) <= 1
    /\ \A i, j \in 1..Len(install.candidates) :
         i < j => ~install.candidates[i].baseline /\ install.candidates[j].baseline
    /\ \A i \in 1..Len(install.candidates) :
         install.candidates[i].baseline => install.arch = "x64"
    /\ InstallExited =>
         /\ install.exitCode = 0
         /\ \A k \in 1..Len(install.linked) :
              \E i \in 1..Len(install.candidates) :
                /\ install.linked[k] = install.candidates[i]
                /\ Works(install.candidates[i])
                /\ \A j \in 1..(i - 1) : ~Works(install.candidates[j])
         /\ install.linked = <<>> =>
              \/ install.outcome = "unsupported platform" /\ install.candidates = <<>>
              \/ /\ install.outcome = "no working binary"
                 /\ \A i \in 1..Len(install.candidates) : ~Works(install.candidates[i])
              \/ install.outcome = "postinstall error" /\ install.linkThrows

\* The optimized build failed its check and the baseline build was linked.
C30_Witness ==
  /\ InstallExited /\ install.outcome = "linked" /\ install.exitCode = 0
  /\ Len(install.candidates) = 2
  /\ install.packages[FALSE] = "broken"
  /\ Len(install.linked) = 1 /\ install.linked[1].baseline

=============================================================================
